---- MODULE Spec2Model ----
(***************************************************************************)
(* Wallet Twin: the financial mutation core.                               *)
(*                                                                         *)
(* The store is the PostgreSQL database as seen through the connection     *)
(* pool: wallets, transactions, transfers, goals, goal_contributions,      *)
(* recurring_transactions, budgets.                                        *)
(* Every SQL statement is one atomic step.  Service methods are sequences  *)
(* of such steps, run by processes that may interleave.  Money is the      *)
(* exact decimal type; amounts are modelled as integers (minor units).     *)
(***************************************************************************)
EXTENDS Integers, FiniteSets, Sequences, TLC

\* ---------------------------------------------------------------- bounds
MaxAmount == 2
MaxFee == 1
\* the deposit wallet w1 is created with (w2 is created empty)
InitialDeposit == 1
MaxRows == 2
MaxFaults == 1
MaxTarget == 2
MaxContributions == 2
\* the last day the clock reaches (days are counted from 1)
MaxDay == 2

Procs == {"p1", "p2"}
\* the single caller of the one-at-a-time specification
SeqProcs == {"p1"}
WalletIDs == {"w1", "w2"}
GoalIDs == {"g1", "g2"}
RecurringIDs == {"r1", "r2"}
BudgetIDs == {"b1"}
CategoryIDs == {"c1", "c2"}

\* An optional field (a nil or non-nil pointer, a nullable column).
Nil == <<>>
Some(v) == <<v>>

\* Inputs of the service calls that pass the field validation.
ValidInputs ==
    [wallets |-> WalletIDs, types |-> {"income", "expense"},
     amounts |-> 1..MaxAmount, fees |-> 0..MaxFee, ids |-> 1..MaxRows,
     categories |-> {Nil}]

VARIABLES
    wallets,        \* wallets table: id -> [balance, isActive]
    transactions,   \* transactions table: set of rows
    transfers,      \* transfers table: set of rows
    goals,          \* goals table: id -> [current, target, status]
    contributions,  \* goal_contributions table: set of rows
    recurrings,     \* recurring_transactions table: id -> row
    today,          \* CURRENT_DATE / time.Now, in days
    budgets,        \* budgets table: id -> row
    pc,             \* position of each process in its service method
    call,           \* locals of the service method each process runs
    dbtx,           \* pgx.Tx opened by WithTransaction: state and buffered writes
    nextID,         \* next value handed out by models.NewID
    faults          \* number of store failures injected

vars == <<wallets, transactions, transfers, goals, contributions, recurrings, today, budgets, pc, call, dbtx, nextID, faults>>

\* ------------------------------------------------------------ pure helpers

\* models.TransactionType.IsValid
TransactionTypeIsValid(typ) == typ \in {"income", "expense"}

\* Variant of TransactionValidate that lets an amount of zero through.
TransactionValidate_ZeroAmount(walletID, typ, amount) ==
    IF walletID = "" THEN "wallet is required"
    ELSE IF ~TransactionTypeIsValid(typ) THEN "invalid transaction type"
    ELSE IF amount < 0 THEN "transaction amount must be positive"
    ELSE "nil"

\* models.Transaction.Validate
TransactionValidate(walletID, typ, amount) ==
    IF walletID = "" THEN "wallet is required"
    ELSE IF ~TransactionTypeIsValid(typ) THEN "invalid transaction type"
    ELSE IF amount <= 0 THEN "transaction amount must be positive"
    ELSE "nil"

\* models.Transfer.Validate
TransferValidate(from, to, amount, fee) ==
    IF from = "" THEN "source wallet is required"
    ELSE IF to = "" THEN "destination wallet is required"
    ELSE IF from = to THEN "cannot transfer to the same wallet"
    ELSE IF amount <= 0 THEN "transfer amount must be positive"
    ELSE IF fee < 0 THEN "transfer fee cannot be negative"
    ELSE "nil"

\* models.Transfer.TotalDeducted
TotalDeducted(t) == t.amount + t.fee

\* Variant of InsufficientForExpense that also refuses an expense of exactly
\* the balance.
InsufficientForExpense_OrEqual(balance, typ, amount) ==
    typ = "expense" /\ balance <= amount

\* TransactionService.Create: "Check balance for expense"
InsufficientForExpense(balance, typ, amount) ==
    typ = "expense" /\ balance < amount

\* TransactionService.Create: "Calculate new balance"
CreateNewBalance(balance, typ, amount) ==
    IF typ = "income" THEN balance + amount ELSE balance - amount

\* Variant of DeleteNewBalance that applies the adjustment of Create again
\* instead of its inverse.
DeleteNewBalance_NotInverted(balance, typ, amount) ==
    IF typ = "income" THEN balance + amount ELSE balance - amount

\* TransactionService.Delete: "Calculate rollback balance"
DeleteNewBalance(balance, typ, amount) ==
    IF typ = "income" THEN balance - amount ELSE balance + amount

\* Variant of InsufficientForTransfer that also refuses a transfer that
\* takes exactly the balance.
InsufficientForTransfer_OrEqual(fromBalance, amount, fee) ==
    fromBalance <= amount + fee

\* TransferService.Create: "Calculate total deducted from source" and
\* "Check balance"
InsufficientForTransfer(fromBalance, amount, fee) ==
    fromBalance < amount + fee

\* Variant of TransferFromNewBalance that forgets the fee.
TransferFromNewBalance_NoFee(fromBalance, amount, fee) == fromBalance - amount

\* TransferService.Create: "Calculate new balances"
TransferFromNewBalance(fromBalance, amount, fee) == fromBalance - (amount + fee)
TransferToNewBalance(toBalance, amount) == toBalance + amount

\* ------------------------------------------------------------- the store

\* The connection a repository write runs on.  Every repository method calls
\* r.pool.Exec; none consults GetTx(ctx).
RepoConn(kind) == "pool"

\* Effect of one write statement on each table.
ApplyWallets(ws, wr) ==
    IF wr.kind = "UpdateBalance" /\ wr.wallet \in DOMAIN ws
    THEN [ws EXCEPT ![wr.wallet].balance = wr.balance]
    ELSE ws

ApplyTransactions(ts, wr) ==
    IF wr.kind = "InsertTransaction"
    THEN ts \cup {[id |-> wr.id, walletID |-> wr.wallet, type |-> wr.typ, amount |-> wr.amount,
                    date |-> wr.date, categoryID |-> wr.category]}
    ELSE IF wr.kind = "DeleteTransaction"
    THEN {t \in ts : t.id # wr.id}
    ELSE ts

ApplyTransfers(trs, wr) ==
    IF wr.kind = "InsertTransfer"
    THEN trs \cup {[id |-> wr.id, from |-> wr.wallet, to |-> wr.wallet2,
                    amount |-> wr.amount, fee |-> wr.fee]}
    ELSE trs

\* Effect of one write statement on the three tables.
ApplyStore(st, wr) ==
    [wallets |-> ApplyWallets(st.wallets, wr),
     transactions |-> ApplyTransactions(st.transactions, wr),
     transfers |-> ApplyTransfers(st.transfers, wr)]

RECURSIVE ApplyAll(_, _)
\* Applies a sequence of buffered writes in order (tx.Commit).
ApplyAll(st, ws) ==
    IF ws = <<>> THEN st ELSE ApplyAll(ApplyStore(st, Head(ws)), Tail(ws))

\* The tables as every connection of the pool sees them.
Store == [wallets |-> wallets, transactions |-> transactions, transfers |-> transfers]

\* A write with all fields present.
Write(kind, id, wallet, wallet2, typ, amount, fee, balance, date, category) ==
    [kind |-> kind, id |-> id, wallet |-> wallet, wallet2 |-> wallet2,
     typ |-> typ, amount |-> amount, fee |-> fee, balance |-> balance, date |-> date,
     category |-> category]

NoTx == [state |-> "none", writes |-> <<>>]

\* The tables as the statement of process p sees them on connection conn.
ViewTransactions(p, conn) ==
    IF conn = "tx" THEN ApplyAll(Store, dbtx[p].writes).transactions
    ELSE transactions

\* Variant of RowsAffected for a DELETE whose result is not looked at.
RowsAffected_Ignored(p, wr, conn) ==
    IF wr.kind = "UpdateBalance"
    THEN (IF wr.wallet \in DOMAIN wallets THEN 1 ELSE 0)
    ELSE 1

\* Rows affected by a write (pgconn.CommandTag.RowsAffected).
RowsAffected(p, wr, conn) ==
    IF wr.kind = "DeleteTransaction"
    THEN Cardinality({t \in ViewTransactions(p, conn) : t.id = wr.id})
    ELSE IF wr.kind = "UpdateBalance"
    THEN (IF wr.wallet \in DOMAIN wallets THEN 1 ELSE 0)
    ELSE 1

\* Executes the write of process p on the connection its repository uses:
\* on the pool it takes effect at once, on the tx it is buffered until commit.
ExecWrite(p, wr) ==
    LET conn == RepoConn(wr.kind) IN
    /\ IF conn = "pool"
       THEN /\ wallets' = ApplyWallets(wallets, wr)
            /\ transactions' = ApplyTransactions(transactions, wr)
            /\ transfers' = ApplyTransfers(transfers, wr)
            /\ dbtx' = dbtx
       ELSE /\ dbtx' = [dbtx EXCEPT ![p].writes = Append(@, wr)]
            /\ UNCHANGED <<wallets, transactions, transfers>>

\* ------------------------------------------------------- service processes

\* models.Goal before it is read from the store.
NilGoal == [current |-> 0, target |-> 0, status |-> ""]

\* Locals of a service call that has not started.  goal0 is the goals row as
\* the UPDATE of goalRepository.AddContribution found it.  caller, batch
\* (the result of GetDue), due (what is left of it), attempted and processed
\* are the locals of RecurringService.ProcessDue while it runs
\* TransactionService.Create for the entry at the head of due.
NilCall ==
    [op |-> "none", w |-> "", w2 |-> "", typ |-> "", amt |-> 0, fee |-> 0, id |-> 0,
     bal |-> 0, bal2 |-> 0, newBal |-> 0, newBal2 |-> 0, fnErr |-> "nil", err |-> "nil",
     began |-> FALSE, fnCalls |-> 0, commits |-> 0, rollbacks |-> 0,
     failedAt |-> "none", conns |-> {}, gid |-> "", goal |-> NilGoal,
     goal0 |-> NilGoal, successCount |-> 0, skippedCount |-> 0,
     active |-> FALSE, date |-> 0, caller |-> "", batch |-> <<>>, due |-> <<>>,
     attempted |-> <<>>, processed |-> 0, cat |-> Nil, bid |-> "",
     budget |-> Nil, result |-> Nil, statuses |-> {},
     input |-> Nil]

ErrInsufficientBalance == "insufficient wallet balance"

\* WalletService.Create: the balance a wallet is created with.
InitialBalance(w) == IF w = "w1" THEN InitialDeposit ELSE 0

\* models.NewGoal
NewGoal(target) == [current |-> 0, target |-> target, status |-> "active"]

Init ==
    /\ wallets = [w \in WalletIDs |-> [balance |-> InitialBalance(w), isActive |-> TRUE]]
    /\ transactions = {}
    /\ transfers = {}
    /\ goals = [g \in GoalIDs |-> NewGoal(MaxTarget)]
    /\ contributions = {}
    /\ recurrings = <<>>
    /\ today = 1
    /\ budgets = <<>>
    /\ pc = [p \in Procs |-> "idle"]
    /\ call = [p \in Procs |-> NilCall]
    /\ dbtx = [p \in Procs |-> NoTx]
    /\ nextID = 1
    /\ faults = 0

\* Where a service method returns to: the loop of ProcessDue when it was
\* called from there, the outside caller otherwise.
ReturnTo(c) == IF c.caller = "ProcessDue" THEN "due_created" ELSE "done"

\* The service method returns err (nil included) to its caller.
Fail(p, c, err) ==
    /\ pc' = [pc EXCEPT ![p] = ReturnTo(c)]
    /\ call' = [call EXCEPT ![p] = [c EXCEPT !.err = err]]

\* The service method goes on to step `next` with locals c.
Goto(p, c, next) ==
    /\ pc' = [pc EXCEPT ![p] = next]
    /\ call' = [call EXCEPT ![p] = c]

\* TransactionService.Create: "if transaction.TransactionDate.IsZero()";
\* the zero time is day 0.
TransactionDate(date, now) == IF date = 0 THEN now ELSE date

\* TransactionService.Create up to the call of WithTransaction, with the
\* caller's locals c0: fetch the wallet, check it, build and validate the
\* row, compute the new balance.
TransactionService_Create_Call(p, c0, w, typ, amt, date, cat) ==
    LET c == [c0 EXCEPT !.op = "TxCreate", !.w = w, !.typ = typ, !.amt = amt,
                        !.date = TransactionDate(date, today), !.cat = cat] IN
    IF w \notin DOMAIN wallets
    THEN Fail(p, c, "wallet not found") /\ UNCHANGED nextID
    ELSE IF ~wallets[w].isActive
    THEN Fail(p, c, "cannot create transaction on inactive wallet") /\ UNCHANGED nextID
    ELSE IF InsufficientForExpense(wallets[w].balance, typ, amt)
    THEN Fail(p, c, ErrInsufficientBalance) /\ UNCHANGED nextID
    ELSE IF TransactionValidate(w, typ, amt) # "nil"
    THEN Fail(p, c, "validation failed") /\ UNCHANGED nextID
    ELSE /\ nextID <= MaxRows
         /\ Goto(p, [c EXCEPT !.id = nextID, !.bal = wallets[w].balance,
                               !.newBal = CreateNewBalance(wallets[w].balance, typ, amt)],
                 "begin")
         /\ nextID' = nextID + 1

\* TransactionService.Create called from outside with no Date given.
TransactionService_Create(p, I) ==
    /\ pc[p] = "idle"
    /\ \E w \in I.wallets, typ \in I.types, amt \in I.amounts, cat \in I.categories :
         TransactionService_Create_Call(p, NilCall, w, typ, amt, 0, cat)
    /\ UNCHANGED <<wallets, transactions, transfers, goals, contributions, dbtx, faults, recurrings, today, budgets>>

\* TransactionService.Delete, first statement: txRepo.GetByID.
TransactionService_Delete(p, I) ==
    /\ pc[p] = "idle"
    /\ \E id \in I.ids :
         LET c == [NilCall EXCEPT !.op = "TxDelete", !.id = id]
             rows == {t \in transactions : t.id = id} IN
         IF rows = {}
         THEN Fail(p, c, "transaction not found")
         ELSE LET tx == CHOOSE t \in rows : TRUE IN
              Goto(p, [c EXCEPT !.w = tx.walletID, !.typ = tx.type, !.amt = tx.amount],
                   "delete_get_wallet")
    /\ UNCHANGED <<wallets, transactions, transfers, goals, contributions, dbtx, nextID, faults, recurrings, today, budgets>>

\* TransactionService.Delete, second statement: walletRepo.GetByID, then the
\* rollback balance.
TransactionService_Delete_GetWallet(p) ==
    /\ pc[p] = "delete_get_wallet"
    /\ LET c == call[p] IN
       IF c.w \notin DOMAIN wallets
       THEN Fail(p, c, "wallet not found")
       ELSE Goto(p, [c EXCEPT !.bal = wallets[c.w].balance,
                              !.newBal = DeleteNewBalance(wallets[c.w].balance, c.typ, c.amt)],
                 "begin")
    /\ UNCHANGED <<wallets, transactions, transfers, goals, contributions, dbtx, nextID, faults, recurrings, today, budgets>>

\* TransferService.Create, first statement: same-wallet check and
\* walletRepo.GetByID of the source.
TransferService_Create(p, I) ==
    /\ pc[p] = "idle"
    /\ \E from \in I.wallets, to \in I.wallets, amt \in I.amounts, fee \in I.fees :
         LET c == [NilCall EXCEPT !.op = "Transfer", !.w = from, !.w2 = to, !.amt = amt,
                                  !.fee = fee] IN
         IF from = to
         THEN Fail(p, c, "cannot transfer to the same wallet")
         ELSE IF from \notin DOMAIN wallets
         THEN Fail(p, c, "source wallet not found")
         ELSE IF ~wallets[from].isActive
         THEN Fail(p, c, "source wallet is inactive")
         ELSE Goto(p, [c EXCEPT !.bal = wallets[from].balance], "transfer_get_to")
    /\ UNCHANGED <<wallets, transactions, transfers, goals, contributions, dbtx, nextID, faults, recurrings, today, budgets>>

\* TransferService.Create, second statement: walletRepo.GetByID of the
\* destination, the balance check, Validate and the new balances.
TransferService_Create_GetTo(p) ==
    /\ pc[p] = "transfer_get_to"
    /\ LET c == call[p] IN
       IF c.w2 \notin DOMAIN wallets
       THEN Fail(p, c, "destination wallet not found") /\ UNCHANGED nextID
       ELSE IF ~wallets[c.w2].isActive
       THEN Fail(p, c, "destination wallet is inactive") /\ UNCHANGED nextID
       ELSE IF InsufficientForTransfer(c.bal, c.amt, c.fee)
       THEN Fail(p, c, ErrInsufficientBalance) /\ UNCHANGED nextID
       ELSE IF TransferValidate(c.w, c.w2, c.amt, c.fee) # "nil"
       THEN Fail(p, c, "validation failed") /\ UNCHANGED nextID
       ELSE /\ nextID <= MaxRows
            /\ Goto(p, [c EXCEPT !.id = nextID, !.bal2 = wallets[c.w2].balance,
                                 !.newBal = TransferFromNewBalance(c.bal, c.amt, c.fee),
                                 !.newBal2 = TransferToNewBalance(wallets[c.w2].balance, c.amt)],
                    "begin")
            /\ nextID' = nextID + 1
    /\ UNCHANGED <<wallets, transactions, transfers, goals, contributions, dbtx, faults, recurrings, today, budgets>>


\* ----------------------------------------------------- WithTransaction

\* Variant of TxOutcome that commits whatever fn returned.
TxOutcome_AlwaysCommit(fnErr) == "commit"

\* TransactionManager.WithTransaction: commit when fn returned nil, roll back
\* (deferred) when it returned an error.
TxOutcome(fnErr) == IF fnErr = "nil" THEN "commit" ELSE "rollback"

\* WithTransaction: tm.pool.Begin, store tx in the context, call fn.
WithTransaction_Begin(p, F) ==
    /\ pc[p] = "begin"
    /\ \/ /\ faults < F
          /\ faults' = faults + 1
          /\ Fail(p, [call[p] EXCEPT !.failedAt = "begin"], "begin failed")
          /\ UNCHANGED dbtx
       \/ /\ dbtx' = [dbtx EXCEPT ![p] = [state |-> "open", writes |-> <<>>]]
          /\ Goto(p, [call[p] EXCEPT !.began = TRUE, !.fnCalls = @ + 1], "fn1")
          /\ UNCHANGED faults
    /\ UNCHANGED <<wallets, transactions, transfers, goals, contributions, nextID, recurrings, today, budgets>>

\* Variant of AfterStepErr in which fn goes on to its next statement.
AfterStepErr_Continue(next) == next

\* `if err := ...; err != nil { return fmt.Errorf(...) }`: fn returns at once.
AfterStepErr(next) == "end"

\* One repository write issued by fn: the statement fails (store error or
\* cancelled context), affects no row, or is executed; an error ends fn.
RepoExec(p, wr, errmsg, next, F) ==
    \/ /\ faults < F
       /\ faults' = faults + 1
       /\ Goto(p, [call[p] EXCEPT !.fnErr = errmsg, !.failedAt = pc[p]], AfterStepErr(next))
       /\ UNCHANGED <<wallets, transactions, transfers, dbtx>>
    \/ /\ RowsAffected(p, wr, RepoConn(wr.kind)) = 0
       /\ Goto(p, [call[p] EXCEPT !.fnErr = errmsg, !.failedAt = pc[p]], AfterStepErr(next))
       /\ UNCHANGED <<wallets, transactions, transfers, dbtx, faults>>
    \/ /\ RowsAffected(p, wr, RepoConn(wr.kind)) > 0
       /\ ExecWrite(p, wr)
       /\ Goto(p, [call[p] EXCEPT !.conns = @ \cup {RepoConn(wr.kind)}], next)
       /\ UNCHANGED faults

\* fn of TransactionService.Create: s.txRepo.Create
TransactionService_Create_Insert(p, F) ==
    /\ pc[p] = "fn1" /\ call[p].op = "TxCreate"
    /\ LET c == call[p] IN
       RepoExec(p, Write("InsertTransaction", c.id, c.w, "", c.typ, c.amt, 0, 0, c.date, c.cat),
                "failed to create transaction", "fn2", F)
    /\ UNCHANGED <<nextID, goals, contributions, recurrings, today, budgets>>

\* fn of TransactionService.Create: s.walletRepo.UpdateBalance
TransactionService_Create_UpdateBalance(p, F) ==
    /\ pc[p] = "fn2" /\ call[p].op = "TxCreate"
    /\ LET c == call[p] IN
       RepoExec(p, Write("UpdateBalance", 0, c.w, "", "", 0, 0, c.newBal, 0, Nil),
                "failed to update balance", "end", F)
    /\ UNCHANGED <<nextID, goals, contributions, recurrings, today, budgets>>

\* fn of TransactionService.Delete: s.txRepo.Delete
TransactionService_Delete_Delete(p, F) ==
    /\ pc[p] = "fn1" /\ call[p].op = "TxDelete"
    /\ LET c == call[p] IN
       RepoExec(p, Write("DeleteTransaction", c.id, c.w, "", c.typ, c.amt, 0, 0, 0, Nil),
                "failed to delete transaction", "fn2", F)
    /\ UNCHANGED <<nextID, goals, contributions, recurrings, today, budgets>>

\* fn of TransactionService.Delete: s.walletRepo.UpdateBalance
TransactionService_Delete_UpdateBalance(p, F) ==
    /\ pc[p] = "fn2" /\ call[p].op = "TxDelete"
    /\ LET c == call[p] IN
       RepoExec(p, Write("UpdateBalance", 0, c.w, "", "", 0, 0, c.newBal, 0, Nil),
                "failed to update balance", "end", F)
    /\ UNCHANGED <<nextID, goals, contributions, recurrings, today, budgets>>

\* fn of TransferService.Create: s.transferRepo.Create
TransferService_Create_Insert(p, F) ==
    /\ pc[p] = "fn1" /\ call[p].op = "Transfer"
    /\ LET c == call[p] IN
       RepoExec(p, Write("InsertTransfer", c.id, c.w, c.w2, "", c.amt, c.fee, 0, 0, Nil),
                "failed to create transfer", "fn2", F)
    /\ UNCHANGED <<nextID, goals, contributions, recurrings, today, budgets>>

\* fn of TransferService.Create: UpdateBalance of the source wallet
TransferService_Create_UpdateSource(p, F) ==
    /\ pc[p] = "fn2" /\ call[p].op = "Transfer"
    /\ LET c == call[p] IN
       RepoExec(p, Write("UpdateBalance", 0, c.w, "", "", 0, 0, c.newBal, 0, Nil),
                "failed to update source balance", "fn3", F)
    /\ UNCHANGED <<nextID, goals, contributions, recurrings, today, budgets>>

\* fn of TransferService.Create: UpdateBalance of the destination wallet
TransferService_Create_UpdateDestination(p, F) ==
    /\ pc[p] = "fn3" /\ call[p].op = "Transfer"
    /\ LET c == call[p] IN
       RepoExec(p, Write("UpdateBalance", 0, c.w2, "", "", 0, 0, c.newBal2, 0, Nil),
                "failed to update destination balance", "end", F)
    /\ UNCHANGED <<nextID, goals, contributions, recurrings, today, budgets>>

\* WithTransaction after fn returned: the deferred rollback, or tx.Commit.
WithTransaction_End(p, F) ==
    /\ pc[p] = "end"
    /\ LET c == call[p] IN
       \/ /\ TxOutcome(c.fnErr) = "rollback"
          /\ dbtx' = [dbtx EXCEPT ![p] = [state |-> "rolledback", writes |-> <<>>]]
          /\ Fail(p, [c EXCEPT !.rollbacks = @ + 1], c.fnErr)
          /\ UNCHANGED <<wallets, transactions, transfers, faults>>
       \/ /\ TxOutcome(c.fnErr) = "commit"
          /\ wallets' = ApplyAll(Store, dbtx[p].writes).wallets
          /\ transactions' = ApplyAll(Store, dbtx[p].writes).transactions
          /\ transfers' = ApplyAll(Store, dbtx[p].writes).transfers
          /\ dbtx' = [dbtx EXCEPT ![p] = [state |-> "committed", writes |-> <<>>]]
          /\ Fail(p, [c EXCEPT !.commits = @ + 1], "nil")
          /\ UNCHANGED faults
       \/ /\ TxOutcome(c.fnErr) = "commit"
          /\ faults < F
          /\ faults' = faults + 1
          /\ dbtx' = [dbtx EXCEPT ![p] = [state |-> "failed", writes |-> <<>>]]
          /\ Fail(p, [c EXCEPT !.commits = @ + 1, !.failedAt = "commit"], "commit failed")
          /\ UNCHANGED <<wallets, transactions, transfers>>
    /\ UNCHANGED <<nextID, goals, contributions, recurrings, today, budgets>>

\* The service method returns to its caller.
Return(p) ==
    /\ pc[p] = "done"
    /\ pc' = [pc EXCEPT ![p] = "idle"]
    /\ call' = [call EXCEPT ![p] = NilCall]
    /\ dbtx' = [dbtx EXCEPT ![p] = NoTx]
    /\ UNCHANGED <<wallets, transactions, transfers, goals, contributions, nextID, faults, recurrings, today, budgets>>

\* ------------------------------------------------------------------ goals

GoalStatuses == {"active", "completed", "cancelled"}

\* Inputs of the goal service calls, valid and invalid ones.
GoalInputs ==
    [goals |-> GoalIDs, amounts |-> 0..MaxAmount, targets |-> 0..MaxTarget,
     statuses |-> GoalStatuses \cup {"paused"}]

\* models.GoalStatus.IsValid
GoalStatusIsValid(status) == status \in GoalStatuses

\* models.Goal.Validate (the name is not modelled)
GoalValidate(g) ==
    IF g.target <= 0 THEN "target amount must be positive"
    ELSE IF ~GoalStatusIsValid(g.status) THEN "invalid goal status"
    ELSE "nil"

\* models.GoalContribution.Validate
ContributionValidate(goalID, amount) ==
    IF goalID = "" THEN "goal is required for contribution"
    ELSE IF amount <= 0 THEN "contribution amount must be positive"
    ELSE "nil"

\* Variant of GoalIsCompleted that needs the target to be exceeded.
GoalIsCompleted_Strict(g) == g.current > g.target

\* models.Goal.IsCompleted
GoalIsCompleted(g) == g.current >= g.target

\* Variant of IncrementCurrentAmount that stores the row without the increment.
IncrementCurrentAmount_NoIncrement(current, amount) == current

\* goalRepository.AddContribution: SET current_amount = current_amount + $2
IncrementCurrentAmount(current, amount) == current + amount

\* goalRepository.Update: the UPDATE writes every column of the row it was
\* given, current_amount included; no row with that id leaves the table as is.
RepoUpdateGoal(gs, gid, g) ==
    IF gid \in DOMAIN gs THEN [gs EXCEPT ![gid] = g] ELSE gs

\* The contribution rows of a goal.
ContributionsOf(gid) == {r \in contributions : r.goalID = gid}

\* GoalService.AddContribution up to the return of goalRepo.AddContribution.
\* The repository runs the insert and the increment on a transaction of its
\* own: both take effect at its commit, or neither does.
GoalService_AddContribution(p, I, F) ==
    /\ pc[p] = "idle"
    /\ \E gid \in I.goals, amt \in I.amounts :
         LET c == [NilCall EXCEPT !.op = "AddContribution", !.gid = gid, !.amt = amt] IN
         IF ContributionValidate(gid, amt) # "nil"
         THEN /\ Fail(p, c, "validation failed")
              /\ UNCHANGED <<goals, contributions, nextID, faults>>
         ELSE \/ /\ faults < F
                 /\ faults' = faults + 1
                 /\ Fail(p, [c EXCEPT !.failedAt = "add"], "failed to add contribution")
                 /\ UNCHANGED <<goals, contributions, nextID>>
              \/ /\ gid \notin DOMAIN goals
                 /\ Fail(p, c, "failed to add contribution")
                 /\ UNCHANGED <<goals, contributions, nextID, faults>>
              \/ /\ gid \in DOMAIN goals
                 /\ nextID <= MaxContributions
                 /\ contributions' = contributions \cup
                        {[id |-> nextID, goalID |-> gid, amount |-> amt]}
                 /\ goals' = [goals EXCEPT ![gid].current = IncrementCurrentAmount(@, amt)]
                 /\ nextID' = nextID + 1
                 /\ Goto(p, [c EXCEPT !.id = nextID, !.goal0 = goals[gid]], "goal_refetch")
                 /\ UNCHANGED faults
    /\ UNCHANGED <<wallets, transactions, transfers, dbtx, recurrings, today, budgets>>

\* Variant of AfterContributionErr that reports the error to the caller.
AfterContributionErr_Propagated(err) == err

\* GoalService.AddContribution: what the call returns when the re-fetch or the
\* status update failed after the contribution was added ("return nil",
\* "_ = s.goalRepo.Update").
AfterContributionErr(err) == "nil"

\* GoalService.AddContribution: the re-fetch (goalRepo.GetByID) and the
\* completion check; a failed re-fetch returns nil.
GoalService_AddContribution_GetByID(p, F) ==
    /\ pc[p] = "goal_refetch"
    /\ LET c == call[p] IN
       \/ /\ faults < F
          /\ faults' = faults + 1
          /\ Fail(p, [c EXCEPT !.failedAt = "refetch"],
                  AfterContributionErr("failed to get goal"))
       \/ /\ c.gid \notin DOMAIN goals
          /\ Fail(p, c, "nil")
          /\ UNCHANGED faults
       \/ /\ c.gid \in DOMAIN goals
          /\ LET g == goals[c.gid] IN
             IF GoalIsCompleted(g) /\ g.status = "active"
             THEN Goto(p, [c EXCEPT !.goal = [g EXCEPT !.status = "completed"]],
                       "goal_complete")
             ELSE Fail(p, c, "nil")
          /\ UNCHANGED faults
    /\ UNCHANGED <<wallets, transactions, transfers, goals, contributions, dbtx, nextID, recurrings, today, budgets>>

\* GoalService.AddContribution: _ = s.goalRepo.Update(ctx, goal)
GoalService_AddContribution_Update(p, F) ==
    /\ pc[p] = "goal_complete"
    /\ LET c == call[p] IN
       \/ /\ faults < F
          /\ faults' = faults + 1
          /\ Fail(p, [c EXCEPT !.failedAt = "complete"],
                  AfterContributionErr("failed to update goal"))
          /\ UNCHANGED goals
       \/ /\ goals' = RepoUpdateGoal(goals, c.gid, c.goal)
          /\ Fail(p, c, "nil")
          /\ UNCHANGED faults
    /\ UNCHANGED <<wallets, transactions, transfers, contributions, dbtx, nextID, recurrings, today, budgets>>


\* GoalService.Update up to the call of goalRepo.Update: goalRepo.GetByID,
\* the fields of the input that are set, Validate.
GoalService_Update_Call(p, op, gid, target, status, F) ==
    /\ pc[p] = "idle"
    /\ LET c == [NilCall EXCEPT !.op = op, !.gid = gid] IN
       \/ /\ faults < F
          /\ faults' = faults + 1
          /\ Fail(p, [c EXCEPT !.failedAt = "get"], "failed to get goal")
       \/ /\ gid \notin DOMAIN goals
          /\ Fail(p, c, "failed to get goal")
          /\ UNCHANGED faults
       \/ /\ gid \in DOMAIN goals
          /\ LET g == [goals[gid] EXCEPT
                          !.target = IF target = Nil THEN @ ELSE target[1],
                          !.status = IF status = Nil THEN @ ELSE status[1]] IN
             IF GoalValidate(g) # "nil"
             THEN Fail(p, c, "validation failed")
             ELSE Goto(p, [c EXCEPT !.goal = g], "goal_update")
          /\ UNCHANGED faults
    /\ UNCHANGED <<wallets, transactions, transfers, goals, contributions, dbtx, nextID, recurrings, today, budgets>>

\* GoalService.Update
GoalService_Update(p, I, F) ==
    \E gid \in I.goals :
      \E target \in {Nil} \cup {Some(t) : t \in I.targets} :
        \E status \in {Nil} \cup {Some(st) : st \in I.statuses} :
          GoalService_Update_Call(p, "Update", gid, target, status, F)

\* GoalService.MarkCompleted
GoalService_MarkCompleted(p, I, F) ==
    \E gid \in I.goals :
      GoalService_Update_Call(p, "MarkCompleted", gid, Nil, Some("completed"), F)

\* GoalService.Cancel
GoalService_Cancel(p, I, F) ==
    \E gid \in I.goals :
      GoalService_Update_Call(p, "Cancel", gid, Nil, Some("cancelled"), F)

\* GoalService.Update: s.goalRepo.Update(ctx, goal)
GoalService_Update_Update(p, F) ==
    /\ pc[p] = "goal_update"
    /\ LET c == call[p] IN
       \/ /\ faults < F
          /\ faults' = faults + 1
          /\ Fail(p, [c EXCEPT !.failedAt = "update"], "failed to update goal")
          /\ UNCHANGED goals
       \/ /\ c.gid \notin DOMAIN goals
          /\ Fail(p, c, "failed to update goal")
          /\ UNCHANGED <<goals, faults>>
       \/ /\ c.gid \in DOMAIN goals
          /\ goals' = RepoUpdateGoal(goals, c.gid, c.goal)
          /\ Fail(p, c, "nil")
          /\ UNCHANGED faults
    /\ UNCHANGED <<wallets, transactions, transfers, contributions, dbtx, nextID, recurrings, today, budgets>>

\* GoalService.Delete: DELETE FROM goals; the contribution rows of the goal
\* go with it (ON DELETE CASCADE).
GoalService_Delete(p, I, F) ==
    /\ pc[p] = "idle"
    /\ \E gid \in I.goals :
         LET c == [NilCall EXCEPT !.op = "GoalDelete", !.gid = gid] IN
         \/ /\ faults < F
            /\ faults' = faults + 1
            /\ Fail(p, [c EXCEPT !.failedAt = "delete"], "failed to delete goal")
            /\ UNCHANGED <<goals, contributions>>
         \/ /\ gid \notin DOMAIN goals
            /\ Fail(p, c, "failed to delete goal")
            /\ UNCHANGED <<goals, contributions, faults>>
         \/ /\ gid \in DOMAIN goals
            /\ goals' = [g \in DOMAIN goals \ {gid} |-> goals[g]]
            /\ contributions' = {r \in contributions : r.goalID # gid}
            /\ Fail(p, c, "nil")
            /\ UNCHANGED faults
    /\ UNCHANGED <<wallets, transactions, transfers, dbtx, nextID, recurrings, today, budgets>>

\* Variant of RepoDeleteWallet that removes the row.
RepoDeleteWallet_Hard(ws, w) == [v \in DOMAIN ws \ {w} |-> ws[v]]

\* walletRepository.Delete: "UPDATE wallets SET is_active = false".
RepoDeleteWallet(ws, w) == [ws EXCEPT ![w].isActive = FALSE]

\* WalletService.Delete: walletRepository.Delete sets is_active = false on
\* the row that is still active; no such row is ErrNotFound.
WalletService_Delete(p, I) ==
    /\ pc[p] = "idle"
    /\ \E w \in I.wallets :
         LET c == [NilCall EXCEPT !.op = "WalletDelete", !.w = w] IN
         IF w \in DOMAIN wallets /\ wallets[w].isActive
         THEN /\ wallets' = RepoDeleteWallet(wallets, w)
              /\ Fail(p, c, "nil")
         ELSE /\ Fail(p, c, "failed to delete wallet")
              /\ UNCHANGED wallets
    /\ UNCHANGED <<transactions, transfers, goals, contributions, dbtx, nextID, faults, recurrings, today, budgets>>

\* models.Wallet.Validate, the balance rule (the name, type and currency of
\* the input are taken to be valid).
WalletValidate(balance) ==
    IF balance < 0 THEN "wallet balance cannot be negative" ELSE "nil"

\* WalletService.Update up to the call of repo.Update: repo.GetByID, the
\* fields of the input that are set (none of them is the balance), Validate.
WalletService_Update(p, I) ==
    /\ pc[p] = "idle"
    /\ \E w \in I.wallets :
         LET c == [NilCall EXCEPT !.op = "WalletUpdate", !.w = w] IN
         IF w \notin DOMAIN wallets
         THEN Fail(p, c, "failed to get wallet")
         ELSE IF WalletValidate(wallets[w].balance) # "nil"
         THEN Fail(p, c, "validation failed")
         ELSE Goto(p, [c EXCEPT !.bal = wallets[w].balance,
                                !.active = wallets[w].isActive], "wallet_update")
    /\ UNCHANGED <<wallets, transactions, transfers, goals, contributions, dbtx, nextID, faults, recurrings, today, budgets>>

\* WalletService.Update: s.repo.Update(ctx, wallet).  The UPDATE of
\* walletRepository.Update writes every column of the wallet it was given,
\* balance and is_active included.
WalletService_Update_Update(p) ==
    /\ pc[p] = "wallet_update"
    /\ LET c == call[p] IN
       IF c.w \notin DOMAIN wallets
       THEN /\ Fail(p, c, "failed to update wallet")
            /\ UNCHANGED wallets
       ELSE /\ wallets' = [wallets EXCEPT ![c.w] =
                               [balance |-> c.bal, isActive |-> c.active]]
            /\ Fail(p, c, "nil")
    /\ UNCHANGED <<transactions, transfers, goals, contributions, dbtx, nextID, faults, recurrings, today, budgets>>

\* Importer.parseTransactionRow: the type column must be income or expense
\* (the other columns are taken as they parse).
ParseRowOK(typ) == typ \in {"income", "expense"}

\* The INSERT of transactionRepository.Create is accepted by the table:
\* wallet_id REFERENCES wallets(id), CHECK (amount > 0).
InsertTransactionOK(w, amount) == w \in DOMAIN wallets /\ amount > 0

\* Importer.TransactionsFromCSV: the file is opened and its header is read.
Importer_TransactionsFromCSV(p) ==
    /\ pc[p] = "idle"
    /\ Goto(p, [NilCall EXCEPT !.op = "ImportCSV"], "import_rows")
    /\ UNCHANGED <<wallets, transactions, transfers, goals, contributions, dbtx, nextID, faults, recurrings, today, budgets>>

\* Importer.TransactionsFromCSV, one turn of the loop over the rows: a row
\* that does not parse or whose insert fails is skipped, any other row is
\* inserted by transactionRepo.Create and nothing else is written.
Importer_TransactionsFromCSV_Row(p, I, F) ==
    /\ pc[p] = "import_rows"
    /\ \E w \in I.wallets, typ \in I.types, amt \in I.amounts, cat \in I.categories :
         \/ /\ ~ParseRowOK(typ) \/ ~InsertTransactionOK(w, amt)
            /\ call[p].skippedCount < MaxRows
            /\ Goto(p, [call[p] EXCEPT !.skippedCount = @ + 1], "import_rows")
            /\ UNCHANGED <<transactions, nextID, faults>>
         \/ /\ ParseRowOK(typ) /\ InsertTransactionOK(w, amt)
            /\ faults < F
            /\ faults' = faults + 1
            /\ call[p].skippedCount < MaxRows
            /\ Goto(p, [call[p] EXCEPT !.skippedCount = @ + 1], "import_rows")
            /\ UNCHANGED <<transactions, nextID>>
         \/ /\ ParseRowOK(typ) /\ InsertTransactionOK(w, amt)
            /\ nextID <= MaxRows
            /\ transactions' = ApplyTransactions(transactions,
                   Write("InsertTransaction", nextID, w, "", typ, amt, 0, 0, today, cat))
            /\ nextID' = nextID + 1
            /\ Goto(p, [call[p] EXCEPT !.successCount = @ + 1], "import_rows")
            /\ UNCHANGED faults
    /\ UNCHANGED <<wallets, transfers, goals, contributions, dbtx, recurrings, today, budgets>>

\* Importer.TransactionsFromCSV: io.EOF ends the loop.
Importer_TransactionsFromCSV_EOF(p) ==
    /\ pc[p] = "import_rows"
    /\ Fail(p, call[p], "nil")
    /\ UNCHANGED <<wallets, transactions, transfers, goals, contributions, dbtx, nextID, faults, recurrings, today, budgets>>

\* -------------------------------------------------------------- recurring

\* models.RecurringFrequency.IsValid
RecurringFrequencyIsValid(f) == f \in {"daily", "weekly", "monthly", "yearly"}

\* Days added by time.AddDate for the frequencies of the inputs.
FrequencyDays(f) == CASE f = "daily" -> 1 [] f = "weekly" -> 7

\* Inputs of RecurringService.Create; an end date before the first due date
\* is among them.
RecurringInputs ==
    [wallets |-> {"w1"}, types |-> {"income", "expense"}, amounts |-> {1},
     frequencies |-> {"daily", "weekly"}, nextDues |-> 1..MaxDay,
     endDates |-> {Nil} \cup {Some(d) : d \in 1..MaxDay}, categories |-> {Nil}]

\* models.RecurringTransaction.Validate
RecurringValidate(r) ==
    IF r.walletID = "" THEN "wallet is required"
    ELSE IF ~TransactionTypeIsValid(r.type) THEN "invalid transaction type"
    ELSE IF r.amount <= 0 THEN "amount must be positive"
    ELSE IF ~RecurringFrequencyIsValid(r.frequency) THEN "invalid frequency"
    ELSE IF r.endDate # Nil /\ r.endDate[1] < r.nextDue THEN "end date must be after next due"
    ELSE "nil"

\* Variant of ValidEndDate for a table without the constraint.
ValidEndDate_None(r) == TRUE

\* recurring_transactions: CONSTRAINT valid_end_date
ValidEndDate(r) == r.endDate = Nil \/ r.endDate[1] >= r.nextDue

\* Variant of AdvanceNextDue that steps over every period that has passed.
AdvanceNextDue_CatchUp(r) ==
    LET step == FrequencyDays(r.frequency)
        periods == IF r.nextDue <= today THEN (today - r.nextDue) \div step + 1 ELSE 1
        next == r.nextDue + periods * step IN
    [r EXCEPT !.nextDue = next,
              !.isActive = IF r.endDate # Nil /\ next > r.endDate[1] THEN FALSE ELSE @]

\* models.RecurringTransaction.AdvanceNextDue
AdvanceNextDue(r) ==
    LET next == r.nextDue + FrequencyDays(r.frequency) IN
    [r EXCEPT !.nextDue = next,
              !.isActive = IF r.endDate # Nil /\ next > r.endDate[1] THEN FALSE ELSE @]

\* recurringRepository.Update: the error of the UPDATE of the whole row.
RepoUpdateRecurringErr(rs, r) ==
    IF r.id \notin DOMAIN rs THEN "not found"
    ELSE IF ~ValidEndDate(r) THEN "check constraint valid_end_date"
    ELSE "nil"

\* recurringRepository.Update: the table after the UPDATE.
RepoUpdateRecurring(rs, r) ==
    IF RepoUpdateRecurringErr(rs, r) = "nil" THEN [rs EXCEPT ![r.id] = r] ELSE rs

\* recurringRepository.Create: the table after the INSERT.
RepoCreateRecurring(rs, r) ==
    [id \in DOMAIN rs \cup {r.id} |-> IF id = r.id THEN r ELSE rs[id]]

\* Variant of DueIDs that selects only the entries due before today.
DueIDs_Strict(rs, now) == {id \in DOMAIN rs : rs[id].isActive /\ rs[id].nextDue < now}

\* recurringRepository.GetDue: the rows of WHERE is_active = true AND
\* next_due <= CURRENT_DATE.
DueIDs(rs, now) == {id \in DOMAIN rs : rs[id].isActive /\ rs[id].nextDue <= now}

\* recurringRepository.GetDue: the results ORDER BY next_due ASC can come in;
\* rows with equal next_due come in any order.
GetDue(rs, now) ==
    LET ids == DueIDs(rs, now)
        n == Cardinality(ids) IN
    {[i \in 1..n |-> rs[f[i]]] :
        f \in {g \in [1..n -> ids] :
                 /\ \A i, j \in 1..n : i # j => g[i] # g[j]
                 /\ \A i, j \in 1..n : i < j => rs[g[i]].nextDue <= rs[g[j]].nextDue}}

\* RecurringService.Create
RecurringService_Create(p, I, F) ==
    /\ pc[p] = "idle"
    /\ \E id \in RecurringIDs \ DOMAIN recurrings, w \in I.wallets, typ \in I.types,
          amt \in I.amounts, freq \in I.frequencies, due \in I.nextDues, end \in I.endDates,
          cat \in I.categories :
         LET r == [id |-> id, walletID |-> w, categoryID |-> cat, type |-> typ, amount |-> amt,
                   frequency |-> freq, nextDue |-> due, endDate |-> end, isActive |-> TRUE]
             c == [NilCall EXCEPT !.op = "RecurringCreate"] IN
         IF RecurringValidate(r) # "nil"
         THEN Fail(p, c, "validation failed") /\ UNCHANGED <<recurrings, faults>>
         ELSE \/ /\ faults < F
                 /\ faults' = faults + 1
                 /\ Fail(p, c, "failed to create recurring")
                 /\ UNCHANGED recurrings
              \/ /\ recurrings' = RepoCreateRecurring(recurrings, r)
                 /\ Fail(p, c, "nil")
                 /\ UNCHANGED faults
    /\ UNCHANGED <<wallets, transactions, transfers, goals, contributions, dbtx, nextID, today, budgets>>

\* RecurringService.ProcessDue: s.GetDue; its error is returned at once.
RecurringService_ProcessDue(p, F) ==
    /\ pc[p] = "idle"
    /\ LET c == [NilCall EXCEPT !.op = "ProcessDue"] IN
       \/ /\ faults < F
          /\ faults' = faults + 1
          /\ Fail(p, c, "failed to get due recurring")
       \/ /\ \E due \in GetDue(recurrings, today) :
               Goto(p, [c EXCEPT !.batch = due, !.due = due], "due_next")
          /\ UNCHANGED faults
    /\ UNCHANGED <<wallets, transactions, transfers, goals, contributions, recurrings, dbtx,
                   nextID, today, budgets>>

\* RecurringService.ProcessDue, the head of the loop body: "Generate
\* transaction" for the next entry of the batch, dated with its NextDue.
RecurringService_ProcessDue_Generate(p) ==
    /\ pc[p] = "due_next"
    /\ call[p].due # <<>>
    /\ LET c == call[p]
           recurring == Head(c.due)
           c0 == [NilCall EXCEPT !.caller = "ProcessDue", !.batch = c.batch, !.due = c.due,
                                 !.attempted = Append(c.attempted, recurring.id),
                                 !.processed = c.processed] IN
       TransactionService_Create_Call(p, c0, recurring.walletID, recurring.type,
                                      recurring.amount, recurring.nextDue,
                                      recurring.categoryID)
    /\ UNCHANGED <<wallets, transactions, transfers, goals, contributions, recurrings, dbtx,
                   faults, today, budgets>>

\* Variant of AfterItemErr that gives up the batch at the first entry that
\* fails.
AfterItemErr_Abort(due) == <<>>

\* RecurringService.ProcessDue: "continue" after a failure of one entry; the
\* entries that remain in the batch.
AfterItemErr(due) == Tail(due)

\* RecurringService.ProcessDue, the rest of the loop body: on an error of
\* Create the entry is left; otherwise "Advance next due", then
\* s.recurringRepo.Update, and processed++ when it succeeded.
RecurringService_ProcessDue_Advance(p, F) ==
    /\ pc[p] = "due_created"
    /\ LET c == call[p]
           recurring == AdvanceNextDue(Head(c.due)) IN
       IF c.err # "nil"
       THEN /\ Goto(p, [c EXCEPT !.due = AfterItemErr(c.due)], "due_next")
            /\ UNCHANGED <<recurrings, faults>>
       ELSE \/ /\ faults < F
               /\ faults' = faults + 1
               /\ Goto(p, [c EXCEPT !.due = AfterItemErr(c.due),
                                    !.failedAt = "recurring_update"], "due_next")
               /\ UNCHANGED recurrings
            \/ /\ RepoUpdateRecurringErr(recurrings, recurring) # "nil"
               /\ Goto(p, [c EXCEPT !.due = AfterItemErr(c.due),
                                    !.failedAt = "recurring_update"], "due_next")
               /\ UNCHANGED <<recurrings, faults>>
            \/ /\ RepoUpdateRecurringErr(recurrings, recurring) = "nil"
               /\ recurrings' = RepoUpdateRecurring(recurrings, recurring)
               /\ Goto(p, [c EXCEPT !.due = Tail(c.due), !.processed = @ + 1], "due_next")
               /\ UNCHANGED faults
    /\ UNCHANGED <<wallets, transactions, transfers, goals, contributions, dbtx, nextID, today, budgets>>

\* RecurringService.ProcessDue: the loop is over, "return processed, nil".
RecurringService_ProcessDue_Return(p) ==
    /\ pc[p] = "due_next"
    /\ call[p].due = <<>>
    /\ Fail(p, [call[p] EXCEPT !.op = "ProcessDue", !.caller = "", !.err = "nil"], "nil")
    /\ UNCHANGED <<wallets, transactions, transfers, goals, contributions, recurrings, dbtx,
                   nextID, faults, today, budgets>>

\* A day passes (CURRENT_DATE of the store and time.Now of the services).
Clock_Tick ==
    /\ today < MaxDay
    /\ today' = today + 1
    /\ UNCHANGED <<wallets, transactions, transfers, goals, contributions, recurrings, pc, call,
                   dbtx, nextID, faults, budgets>>

\* ------------------------------------------------------- specifications

AllIdle == \A p \in Procs : pc[p] = "idle"

\* Concurrent service calls, interleaved statement by statement, against a
\* store whose statements do not fail.
Next ==
    \/ \E p \in Procs : TransactionService_Create(p, ValidInputs)
    \/ \E p \in Procs : TransactionService_Create_Insert(p, 0)
    \/ \E p \in Procs : TransactionService_Create_UpdateBalance(p, 0)
    \/ \E p \in Procs : TransactionService_Delete(p, ValidInputs)
    \/ \E p \in Procs : TransactionService_Delete_GetWallet(p)
    \/ \E p \in Procs : TransactionService_Delete_Delete(p, 0)
    \/ \E p \in Procs : TransactionService_Delete_UpdateBalance(p, 0)
    \/ \E p \in Procs : TransferService_Create(p, ValidInputs)
    \/ \E p \in Procs : TransferService_Create_GetTo(p)
    \/ \E p \in Procs : TransferService_Create_Insert(p, 0)
    \/ \E p \in Procs : TransferService_Create_UpdateSource(p, 0)
    \/ \E p \in Procs : TransferService_Create_UpdateDestination(p, 0)
    \/ \E p \in Procs : WithTransaction_Begin(p, 0)
    \/ \E p \in Procs : WithTransaction_End(p, 0)
    \/ \E p \in Procs : Return(p)

Spec == Init /\ [][Next]_vars

\* Service calls executed one at a time by one caller, against a store whose
\* statements may fail (store error or cancelled context).
NextSeq ==
    \/ \E p \in SeqProcs : TransactionService_Create(p, ValidInputs)
    \/ \E p \in SeqProcs : TransactionService_Create_Insert(p, MaxFaults)
    \/ \E p \in SeqProcs : TransactionService_Create_UpdateBalance(p, MaxFaults)
    \/ \E p \in SeqProcs : TransactionService_Delete(p, ValidInputs)
    \/ \E p \in SeqProcs : TransactionService_Delete_GetWallet(p)
    \/ \E p \in SeqProcs : TransactionService_Delete_Delete(p, MaxFaults)
    \/ \E p \in SeqProcs : TransactionService_Delete_UpdateBalance(p, MaxFaults)
    \/ \E p \in SeqProcs : TransferService_Create(p, ValidInputs)
    \/ \E p \in SeqProcs : TransferService_Create_GetTo(p)
    \/ \E p \in SeqProcs : TransferService_Create_Insert(p, MaxFaults)
    \/ \E p \in SeqProcs : TransferService_Create_UpdateSource(p, MaxFaults)
    \/ \E p \in SeqProcs : TransferService_Create_UpdateDestination(p, MaxFaults)
    \/ \E p \in SeqProcs : WithTransaction_Begin(p, MaxFaults)
    \/ \E p \in SeqProcs : WithTransaction_End(p, MaxFaults)
    \/ \E p \in SeqProcs : Return(p)

SpecSeq == Init /\ [][NextSeq]_vars

\* ------------------------------------------------------------ properties

RECURSIVE SumAmounts(_)
\* Sum of the amounts of a set of rows.
SumAmounts(rows) ==
    IF rows = {} THEN 0
    ELSE LET r == CHOOSE x \in rows : TRUE IN r.amount + SumAmounts(rows \ {r})

RECURSIVE SumFees(_)
\* Sum of the fees of a set of transfer rows.
SumFees(rows) ==
    IF rows = {} THEN 0
    ELSE LET r == CHOOSE x \in rows : TRUE IN r.fee + SumFees(rows \ {r})

RowsOf(w, typ) == {t \in transactions : t.walletID = w /\ t.type = typ}

\* C1: when the balance update inside TransactionService.Create fails after
\* the row insert was issued, Create returns with no row of that call in the
\* store and the wallet balance as it was before the call.
C1_CreateFailureLeavesNoTrace ==
    \A p \in Procs :
        (pc[p] = "done" /\ call[p].op = "TxCreate" /\ call[p].failedAt = "fn2")
        => /\ ~\E t \in transactions : t.id = call[p].id
           /\ wallets[call[p].w].balance = call[p].bal

\* C2: every repository write issued inside the closure of WithTransaction
\* runs on the transaction stored in the context, never on the pool.
C2_WritesRunOnTx ==
    \A p \in Procs : \A conn \in call[p].conns : conn = "tx"

\* C3: when the source or destination balance update of TransferService.Create
\* fails (store error or cancelled context after the first write), no transfer
\* row is persisted and neither wallet balance is changed.
C3_TransferAllOrNothing ==
    \A p \in Procs :
        (pc[p] = "done" /\ call[p].op = "Transfer" /\ call[p].failedAt \in {"fn2", "fn3"})
        => /\ ~\E t \in transfers : t.id = call[p].id
           /\ wallets[call[p].w].balance = call[p].bal
           /\ wallets[call[p].w2].balance = call[p].bal2

\* C4: after any sequence of successful TransactionService.Create and Delete
\* calls run one at a time, each wallet balance is its initial balance plus
\* the undeleted income amounts minus the undeleted expense amounts.
C4_BalanceMatchesLedger ==
    (AllIdle /\ faults = 0 /\ transfers = {})
    => \A w \in WalletIDs :
          wallets[w].balance =
              InitialBalance(w) + SumAmounts(RowsOf(w, "income")) - SumAmounts(RowsOf(w, "expense"))

\* C4 witness: creates and at least one delete have completed and rows remain.
C4_Witness ==
    /\ AllIdle /\ faults = 0 /\ transfers = {}
    /\ transactions # {}
    /\ nextID > Cardinality(transactions) + 1
    /\ \E w \in WalletIDs : wallets[w].balance # InitialBalance(w)

\* C5: when balance-changing calls on the same wallet run concurrently and
\* all return success, the final balance reflects every delta: it is the
\* initial balance adjusted by every ledger row the calls left in the store.
C5_NoLostUpdate ==
    (AllIdle /\ faults = 0)
    => \A w \in WalletIDs :
          wallets[w].balance =
              InitialBalance(w) + SumAmounts(RowsOf(w, "income")) - SumAmounts(RowsOf(w, "expense"))
              + SumAmounts({t \in transfers : t.to = w})
              - SumAmounts({t \in transfers : t.from = w})
              - SumFees({t \in transfers : t.from = w})

\* C6: after a successful TransferService.Create with amount A and fee F the
\* source balance has decreased by A+F = TotalDeducted, the destination has
\* increased by A, and the sum of both has decreased by F.
C6_TransferDeltas ==
    \A p \in Procs :
        (pc[p] = "done" /\ call[p].op = "Transfer" /\ call[p].err = "nil")
        => LET c == call[p] IN
           /\ \E t \in transfers :
                 /\ t.id = c.id /\ t.amount = c.amt /\ t.fee = c.fee
                 /\ c.bal - wallets[c.w].balance = TotalDeducted(t)
           /\ wallets[c.w].balance = c.bal - (c.amt + c.fee)
           /\ wallets[c.w2].balance = c.bal2 + c.amt
           /\ wallets[c.w].balance + wallets[c.w2].balance = c.bal + c.bal2 - c.fee

\* C6 witness: a transfer with a positive fee has succeeded.
C6_Witness ==
    \E p \in Procs :
        pc[p] = "done" /\ call[p].op = "Transfer" /\ call[p].err = "nil" /\ call[p].fee > 0

\* C7: after any sequence of completed calls every wallet balance is >= 0
\* (stated for the runs in which no store call fails, so that a violation
\* does not depend on a partially applied operation).
C7_BalanceNeverNegative ==
    (AllIdle /\ faults = 0) => \A w \in WalletIDs : wallets[w].balance >= 0

\* C8: while a create or transfer is in progress no reader of the store sees
\* a ledger row of the operation without the rest of its writes.
C8_NoPartialStateVisible ==
    \A p \in Procs :
        dbtx[p].state = "open"
        => /\ ~(call[p].op = "TxCreate" /\ \E t \in transactions : t.id = call[p].id)
           /\ ~(call[p].op = "Transfer" /\ \E t \in transfers : t.id = call[p].id)

\* C9: on every WithTransaction whose Begin succeeded, fn ran exactly once
\* and exactly one of commit and rollback was performed: commit iff fn
\* returned nil, rollback otherwise, and then fn's error is what is returned.
C9_CommitXorRollback ==
    \A p \in Procs :
        (pc[p] = "done" /\ call[p].began)
        => LET c == call[p] IN
           /\ c.fnCalls = 1
           /\ c.commits + c.rollbacks = 1
           /\ (c.commits = 1 <=> c.fnErr = "nil")
           /\ (c.fnErr # "nil" => c.rollbacks = 1 /\ c.err = c.fnErr
                                   /\ dbtx[p].state = "rolledback")
           /\ (c.fnErr = "nil" => dbtx[p].state \in {"committed", "failed"})

\* C9 witness: fn returned an error and WithTransaction has returned.
C9_Witness ==
    \E p \in Procs :
        pc[p] = "done" /\ call[p].began /\ call[p].fnErr # "nil" /\ call[p].rollbacks = 1

\* Goal service calls executed one at a time by one caller, against a store
\* whose statements may fail.
NextGoalSeq ==
    \/ \E p \in SeqProcs : GoalService_AddContribution(p, GoalInputs, MaxFaults)
    \/ \E p \in SeqProcs : GoalService_AddContribution_GetByID(p, MaxFaults)
    \/ \E p \in SeqProcs : GoalService_AddContribution_Update(p, MaxFaults)
    \/ \E p \in SeqProcs : GoalService_Update(p, GoalInputs, MaxFaults)
    \/ \E p \in SeqProcs : GoalService_MarkCompleted(p, GoalInputs, MaxFaults)
    \/ \E p \in SeqProcs : GoalService_Cancel(p, GoalInputs, MaxFaults)
    \/ \E p \in SeqProcs : GoalService_Update_Update(p, MaxFaults)
    \/ \E p \in SeqProcs : GoalService_Delete(p, GoalInputs, MaxFaults)
    \/ \E p \in SeqProcs : Return(p)

SpecGoalSeq == Init /\ [][NextGoalSeq]_vars

\* C10: after any sequence of GoalService.AddContribution, Update,
\* MarkCompleted and Cancel calls run one at a time, the stored current amount
\* of every goal equals the sum of the amounts of its contribution rows.
C10_CurrentAmountIsSumOfContributions ==
    \A g \in DOMAIN goals : goals[g].current = SumAmounts(ContributionsOf(g))

\* C10 witness: a goal has received two contributions, had its target
\* changed by Update and was then cancelled.
C10_Witness ==
    /\ AllIdle
    /\ \E g \in DOMAIN goals :
          /\ Cardinality(ContributionsOf(g)) >= 2
          /\ goals[g].current > 0
          /\ goals[g].target # MaxTarget
          /\ goals[g].status = "cancelled"

\* Concurrent GoalService.AddContribution calls, interleaved statement by
\* statement, against a store whose statements do not fail.
NextGoalAdd ==
    \/ \E p \in Procs : GoalService_AddContribution(p, GoalInputs, 0)
    \/ \E p \in Procs : GoalService_AddContribution_GetByID(p, 0)
    \/ \E p \in Procs : GoalService_AddContribution_Update(p, 0)
    \/ \E p \in Procs : Return(p)

SpecGoalAdd == Init /\ [][NextGoalAdd]_vars

\* The smaller of two amounts.
Min(a, b) == IF a <= b THEN a ELSE b

\* C11: when two GoalService.AddContribution calls with amounts a1 and a2 on
\* the same goal have overlapped and both returned success, the current
\* amount of the goal is the amount the first increment found plus a1 + a2.
C11_NoContributionLost ==
    \A p, q \in Procs :
        (/\ p # q
         /\ pc[p] = "done" /\ pc[q] = "done"
         /\ call[p].op = "AddContribution" /\ call[q].op = "AddContribution"
         /\ call[p].gid = call[q].gid
         /\ call[p].err = "nil" /\ call[q].err = "nil"
         /\ call[p].id # 0 /\ call[q].id # 0)
        => goals[call[p].gid].current =
              Min(call[p].goal0.current, call[q].goal0.current)
              + call[p].amt + call[q].amt

\* C12: when a GoalService.AddContribution whose re-fetch and status update
\* did not fail returns, a goal that was active and whose current amount has
\* reached the target is completed, and a goal whose current amount is still
\* below the target (or that was not active) has the status it had before.
C12_CompletedWhenTargetReached ==
    \A p \in Procs :
        (/\ pc[p] = "done" /\ call[p].op = "AddContribution"
         /\ call[p].id # 0 /\ call[p].failedAt = "none")
        => LET c == call[p]
               g == goals[c.gid] IN
           /\ g.current = c.goal0.current + c.amt
           /\ (c.goal0.status = "active" /\ g.current >= g.target)
                 => g.status = "completed"
           /\ (c.goal0.status # "active" \/ g.current < g.target)
                 => g.status = c.goal0.status

\* C12 witness: a contribution has taken an active goal from below its target
\* to the target or beyond, and the call has returned.
C12_Witness ==
    \E p \in Procs :
        /\ pc[p] = "done" /\ call[p].op = "AddContribution"
        /\ call[p].id # 0 /\ call[p].failedAt = "none"
        /\ call[p].goal0.status = "active"
        /\ call[p].goal0.current < call[p].goal0.target
        /\ call[p].goal0.current > 0
        /\ goals[call[p].gid].current >= goals[call[p].gid].target
        /\ goals[call[p].gid].status = "completed"

\* C13: a GoalService.AddContribution whose contribution row and increment
\* were committed returns success, also when the re-fetch or the status update
\* failed afterwards, and the row and the increment are still in the store.
C13_SuccessAfterCommit ==
    \A p \in Procs :
        (pc[p] = "done" /\ call[p].op = "AddContribution" /\ call[p].id # 0)
        => LET c == call[p] IN
           /\ c.err = "nil"
           /\ \E r \in contributions :
                 r.id = c.id /\ r.goalID = c.gid /\ r.amount = c.amt
           /\ goals[c.gid].current = c.goal0.current + c.amt

\* C13 witness: the status update to completed failed and the call has
\* returned.
C13_Witness ==
    \E p \in Procs :
        /\ pc[p] = "done" /\ call[p].op = "AddContribution" /\ call[p].id # 0
        /\ call[p].failedAt = "complete"
        /\ goals[call[p].gid].status = "active"

\* C14: a TransactionService.Create of an expense larger than the balance
\* returns ErrInsufficientBalance at once and leaves the wallets and the
\* transaction rows as they were; an expense of at most the balance goes on
\* to the atomic unit, and when that completes the balance is the balance read
\* minus the amount (0 when the amount equals the balance).
C14_ExpenseBoundary ==
    [][\A p \in Procs :
         /\ (/\ pc[p] = "idle" /\ pc'[p] # "idle"
             /\ call'[p].op = "TxCreate" /\ call'[p].typ = "expense")
            => LET c == call'[p]
                   bal == wallets[c.w].balance IN
               IF c.amt > bal
               THEN /\ pc'[p] = "done" /\ c.err = ErrInsufficientBalance
                    /\ wallets' = wallets /\ transactions' = transactions
               ELSE /\ pc'[p] = "begin" /\ c.bal = bal /\ c.newBal = bal - c.amt
         /\ (/\ pc[p] = "end" /\ pc'[p] = "done"
             /\ call'[p].op = "TxCreate" /\ call'[p].typ = "expense"
             /\ call'[p].failedAt = "none")
            => LET c == call'[p] IN
               /\ c.err = "nil"
               /\ wallets'[c.w].balance = c.bal - c.amt
               /\ (c.amt = c.bal => wallets'[c.w].balance = 0)
               /\ \E t \in transactions' : t.id = c.id /\ t.amount = c.amt
    ]_vars

\* C14 witness: an expense of exactly the (positive) balance has succeeded.
C14_Witness ==
    \E p \in Procs :
        /\ pc[p] = "done" /\ call[p].op = "TxCreate" /\ call[p].typ = "expense"
        /\ call[p].err = "nil" /\ call[p].failedAt = "none"
        /\ call[p].bal > 0 /\ call[p].amt = call[p].bal
        /\ wallets[call[p].w].balance = 0

\* Inputs of TransferService.Create and WalletService.Delete, the ones that
\* violate a precondition included: a wallet that does not exist, amounts
\* that are not positive, a negative fee.
TransferInputs ==
    [wallets |-> WalletIDs \cup {"w3"}, amounts |-> (-1)..MaxAmount,
     fees |-> (-1)..MaxFee]

\* Transfers and wallet deletions executed one at a time by one caller,
\* against a store whose statements do not fail.
NextTransfer ==
    \/ \E p \in SeqProcs : TransferService_Create(p, TransferInputs)
    \/ \E p \in SeqProcs : TransferService_Create_GetTo(p)
    \/ \E p \in SeqProcs : TransferService_Create_Insert(p, 0)
    \/ \E p \in SeqProcs : TransferService_Create_UpdateSource(p, 0)
    \/ \E p \in SeqProcs : TransferService_Create_UpdateDestination(p, 0)
    \/ \E p \in SeqProcs : WithTransaction_Begin(p, 0)
    \/ \E p \in SeqProcs : WithTransaction_End(p, 0)
    \/ \E p \in SeqProcs : WalletService_Delete(p, TransferInputs)
    \/ \E p \in SeqProcs : Return(p)

SpecTransfer == Init /\ [][NextTransfer]_vars

\* The wallet exists and is active.
WalletUsable(w) == w \in DOMAIN wallets /\ wallets[w].isActive

\* C15: a TransferService.Create whose input violates a precondition (same
\* wallet, a wallet missing or inactive, amount <= 0, fee < 0, source balance
\* below amount + fee) returns an error without having begun an atomic unit
\* and with every wallet and transfer row as it was; a balance below
\* amount + fee with everything else in order is ErrInsufficientBalance; an
\* input that violates nothing goes on to the atomic unit, and a transfer of
\* exactly the balance succeeds and leaves the source at 0.
C15_TransferPreconditions ==
    [][\A p \in Procs :
         LET c == call'[p]
             rejected == /\ pc'[p] = "done" /\ c.err # "nil" /\ ~c.began
                         /\ dbtx' = dbtx
                         /\ wallets' = wallets /\ transfers' = transfers IN
         /\ (pc[p] = "idle" /\ pc'[p] # "idle" /\ c.op = "Transfer")
            => IF c.w = c.w2 \/ ~WalletUsable(c.w)
               THEN rejected
               ELSE pc'[p] = "transfer_get_to"
         /\ (pc[p] = "transfer_get_to" /\ pc'[p] # "transfer_get_to")
            => IF ~WalletUsable(c.w2) \/ c.amt <= 0 \/ c.fee < 0
               THEN rejected
               ELSE IF wallets[c.w].balance < c.amt + c.fee
               THEN rejected /\ c.err = ErrInsufficientBalance
               ELSE pc'[p] = "begin"
         /\ (pc[p] = "end" /\ pc'[p] = "done" /\ c.op = "Transfer")
            => /\ c.err = "nil"
               /\ wallets'[c.w].balance = c.bal - (c.amt + c.fee)
               /\ (c.bal = c.amt + c.fee => wallets'[c.w].balance = 0)
               /\ \E t \in transfers' : t.id = c.id
    ]_vars

\* C15 witness: a transfer that takes exactly the (positive) source balance
\* has succeeded.
C15_Witness ==
    \E p \in Procs :
        /\ pc[p] = "done" /\ call[p].op = "Transfer" /\ call[p].err = "nil"
        /\ call[p].bal > 0 /\ call[p].bal = call[p].amt + call[p].fee
        /\ wallets[call[p].w].balance = 0

\* C16: when the balance update inside TransactionService.Delete fails after
\* the row delete was issued, Delete returns with the transaction row still in
\* the store and the wallet balance as it was before the call.
C16_DeleteFailureKeepsRow ==
    \A p \in Procs :
        (pc[p] = "done" /\ call[p].op = "TxDelete" /\ call[p].failedAt = "fn2")
        => /\ \E t \in transactions :
                 t.id = call[p].id /\ t.walletID = call[p].w /\ t.amount = call[p].amt
           /\ wallets[call[p].w].balance = call[p].bal

\* Rows of a CSV file, the ones that are skipped included.
ImportInputs ==
    [wallets |-> WalletIDs \cup {"w3"}, types |-> {"income", "expense", "transfer"},
     amounts |-> 0..MaxAmount, categories |-> {Nil}]

\* Transactions created, deleted and imported one call at a time by one
\* caller, against a store whose statements do not fail.
NextImport ==
    \/ \E p \in SeqProcs : TransactionService_Create(p, ValidInputs)
    \/ \E p \in SeqProcs : TransactionService_Create_Insert(p, 0)
    \/ \E p \in SeqProcs : TransactionService_Create_UpdateBalance(p, 0)
    \/ \E p \in SeqProcs : TransactionService_Delete(p, ValidInputs)
    \/ \E p \in SeqProcs : TransactionService_Delete_GetWallet(p)
    \/ \E p \in SeqProcs : TransactionService_Delete_Delete(p, 0)
    \/ \E p \in SeqProcs : TransactionService_Delete_UpdateBalance(p, 0)
    \/ \E p \in SeqProcs : WithTransaction_Begin(p, 0)
    \/ \E p \in SeqProcs : WithTransaction_End(p, 0)
    \/ \E p \in SeqProcs : Importer_TransactionsFromCSV(p)
    \/ \E p \in SeqProcs : Importer_TransactionsFromCSV_Row(p, ImportInputs, 0)
    \/ \E p \in SeqProcs : Importer_TransactionsFromCSV_EOF(p)
    \/ \E p \in SeqProcs : Return(p)

SpecImport == Init /\ [][NextImport]_vars

\* The balance adjustment that belongs to a transaction row.
Adjustment(t) == IF t.type = "income" THEN t.amount ELSE 0 - t.amount

RECURSIVE SumAdjustments(_)
\* Sum of the adjustments of a set of transaction rows.
SumAdjustments(rows) ==
    IF rows = {} THEN 0
    ELSE LET r == CHOOSE x \in rows : TRUE IN
         Adjustment(r) + SumAdjustments(rows \ {r})

\* C17: every transaction row in the store has had its balance adjustment
\* applied with its insertion, whichever code path inserted it: whenever a
\* call that inserts transactions has returned, the balance of each wallet
\* has moved from its initial value by the adjustments of the rows on it.
C17_EveryRowHasItsAdjustment ==
    \A p \in Procs :
        (pc[p] = "done" /\ call[p].op \in {"TxCreate", "ImportCSV"})
        => \A w \in WalletIDs :
              wallets[w].balance - InitialBalance(w) =
                  SumAdjustments({t \in transactions : t.walletID = w})

\* Concurrent TransactionService.Create and WalletService.Update calls,
\* interleaved statement by statement, against a store whose statements do
\* not fail.
NextWallet ==
    \/ \E p \in Procs : TransactionService_Create(p, ValidInputs)
    \/ \E p \in Procs : TransactionService_Create_Insert(p, 0)
    \/ \E p \in Procs : TransactionService_Create_UpdateBalance(p, 0)
    \/ \E p \in Procs : WithTransaction_Begin(p, 0)
    \/ \E p \in Procs : WithTransaction_End(p, 0)
    \/ \E p \in Procs : WalletService_Update(p, ValidInputs)
    \/ \E p \in Procs : WalletService_Update_Update(p)
    \/ \E p \in Procs : Return(p)

SpecWallet == Init /\ [][NextWallet]_vars

\* One caller at a time creating recurring entries and running the
\* scheduler's ProcessDue while the days pass.
NextRecurring ==
    \/ \E p \in SeqProcs :
         \/ RecurringService_Create(p, RecurringInputs, MaxFaults)
         \/ RecurringService_ProcessDue(p, MaxFaults)
         \/ RecurringService_ProcessDue_Generate(p)
         \/ WithTransaction_Begin(p, MaxFaults)
         \/ TransactionService_Create_Insert(p, MaxFaults)
         \/ TransactionService_Create_UpdateBalance(p, MaxFaults)
         \/ WithTransaction_End(p, MaxFaults)
         \/ RecurringService_ProcessDue_Advance(p, MaxFaults)
         \/ RecurringService_ProcessDue_Return(p)
         \/ Return(p)
    \/ Clock_Tick

SpecRecurring == Init /\ [][NextRecurring]_vars

\* C18: the write of WalletService.Update leaves the stored balance of the
\* wallet as it is at that moment, also when a TransactionService.Create on
\* the wallet has committed since Update read the wallet.
C18_UpdateLeavesBalance ==
    [][\A p \in Procs :
         (pc[p] = "wallet_update" /\ pc'[p] = "done")
         => wallets'[call[p].w].balance = wallets[call[p].w].balance
    ]_vars

\* C19: when ProcessDue has generated the transaction of a due entry (Create
\* returned nil) and the store does not fail, the transaction is dated with
\* the entry's nextDue, and the stored entry has nextDue advanced by one
\* frequency unit and is inactive exactly when the new nextDue exceeds its
\* endDate.
C19_ProcessedEntryIsAdvancedInStore ==
    [][\A p \in Procs :
         (pc[p] = "due_created" /\ pc'[p] = "due_next" /\ call[p].err = "nil"
          /\ faults' = faults)
         => LET r == Head(call[p].due)
                next == r.nextDue + FrequencyDays(r.frequency) IN
            /\ \E t \in transactions : t.id = call[p].id /\ t.date = r.nextDue
            /\ recurrings'[r.id].nextDue = next
            /\ recurrings'[r.id].isActive = ~(r.endDate # Nil /\ next > r.endDate[1])]_vars

\* The ids of the entries of a batch, in its order.
BatchIDs(batch) == [i \in 1..Len(batch) |-> batch[i].id]

\* C20: when ProcessDue returns after GetDue succeeded, it returns no error
\* and every entry GetDue returned was attempted, in order, whether or not
\* the creation of a transaction or the update of an entry failed.
C20_BatchNotAborted ==
    \A p \in Procs :
        (pc[p] = "done" /\ call[p].op = "ProcessDue"
         /\ call[p].err # "failed to get due recurring")
        => /\ call[p].err = "nil"
           /\ call[p].attempted = BatchIDs(call[p].batch)

\* ProcessDue has returned from a batch of two entries of which the first
\* was not processed.
C20_Witness ==
    \E p \in Procs :
        /\ pc[p] = "done" /\ call[p].op = "ProcessDue"
        /\ Len(call[p].batch) = 2
        /\ call[p].processed < 2
        /\ call[p].attempted = BatchIDs(call[p].batch)
        /\ recurrings[call[p].batch[1].id] = call[p].batch[1]

\* C21: in a run of ProcessDue the returned count grows by one for every
\* entry whose transaction was generated (TransactionService.Create returned
\* nil) and is left alone for every entry whose creation failed, so the count
\* returned equals the number of transactions generated in the run.
C21_CountIsGeneratedTransactions ==
    [][\A p \in Procs :
         (pc[p] = "due_created" /\ pc'[p] = "due_next")
         => call'[p].processed =
                call[p].processed + (IF call[p].err = "nil" THEN 1 ELSE 0)]_vars

\* ----------------------------------------------------------------- budgets

\* models.BudgetPeriod.IsValid
BudgetPeriodIsValid(period) == period \in {"weekly", "monthly", "yearly"}

\* models.Budget.Validate
BudgetValidate(b) ==
    IF b.categoryID = "" THEN "category is required for budget"
    ELSE IF b.amount <= 0 THEN "budget amount must be positive"
    ELSE IF ~BudgetPeriodIsValid(b.period) THEN "invalid budget period"
    ELSE IF b.endDate # Nil /\ b.endDate[1] < b.startDate THEN "end date must be after start date"
    ELSE "nil"

\* budgets: CONSTRAINT valid_date_range
ValidDateRange(b) == IF b.endDate = Nil THEN TRUE ELSE b.endDate[1] > b.startDate

\* Inputs of BudgetService.Create, valid and invalid ones.
BudgetInputs ==
    [categories |-> {"c1", ""}, amounts |-> 0..MaxAmount, periods |-> {"monthly", "daily"},
     startDates |-> 1..MaxDay, endDates |-> {Nil} \cup {Some(d) : d \in 1..MaxDay},
     budgets |-> BudgetIDs]

\* Inputs of TransactionService.Create for the transactions budgets look at.
BudgetTransactionInputs ==
    [wallets |-> {"w1"}, types |-> {"income", "expense"}, amounts |-> 1..MaxAmount,
     categories |-> {Some(c) : c \in CategoryIDs}]

\* budgetRepository.Create: the table after the INSERT.
RepoCreateBudget(bs, b) ==
    [id \in DOMAIN bs \cup {b.id} |-> IF id = b.id THEN b ELSE bs[id]]

\* BudgetService.Create
BudgetService_Create(p, I, F) ==
    /\ pc[p] = "idle"
    /\ \E id \in BudgetIDs \ DOMAIN budgets, cat \in I.categories, amt \in I.amounts,
          period \in I.periods, start \in I.startDates, end \in I.endDates :
         LET b == [id |-> id, categoryID |-> cat, amount |-> amt, period |-> period,
                   startDate |-> start, endDate |-> end, isActive |-> TRUE]
             c == [NilCall EXCEPT !.op = "BudgetCreate", !.bid = id, !.budget = b] IN
         IF BudgetValidate(b) # "nil"
         THEN Fail(p, c, "validation failed") /\ UNCHANGED <<budgets, faults>>
         ELSE \/ /\ faults < F
                 /\ faults' = faults + 1
                 /\ Fail(p, c, "failed to create budget")
                 /\ UNCHANGED budgets
              \/ /\ ~ValidDateRange(b)
                 /\ Fail(p, c, "failed to create budget")
                 /\ UNCHANGED <<budgets, faults>>
              \/ /\ ValidDateRange(b)
                 /\ budgets' = RepoCreateBudget(budgets, b)
                 /\ Fail(p, c, "nil")
                 /\ UNCHANGED faults
    /\ UNCHANGED <<wallets, transactions, transfers, goals, contributions, recurrings, today,
                   dbtx, nextID>>

\* repository.TransactionFilter as BudgetService.GetStatus fills it.
StatusFilter(b) ==
    [walletID |-> Nil, categoryID |-> Some(b.categoryID), type |-> Some("expense"),
     startDate |-> Some(b.startDate), endDate |-> b.endDate]

\* transactionRepository.GetSummary: the rows its WHERE clause keeps; the
\* conditions are built from WalletID, StartDate and EndDate of the filter.
SummaryRows(ts, filter) ==
    {t \in ts :
        /\ filter.walletID # Nil => t.walletID = filter.walletID[1]
        /\ filter.startDate # Nil => t.date >= filter.startDate[1]
        /\ filter.endDate # Nil => t.date <= filter.endDate[1]}

RECURSIVE SumCase(_, _)
\* SUM(CASE WHEN type = typ THEN amount ELSE 0 END) over a set of rows.
SumCase(rows, typ) ==
    IF rows = {} THEN 0
    ELSE LET r == CHOOSE x \in rows : TRUE IN
         (IF r.type = typ THEN r.amount ELSE 0) + SumCase(rows \ {r}, typ)

\* transactionRepository.GetSummary
GetSummary(ts, filter) ==
    LET rows == SummaryRows(ts, filter) IN
    [totalIncome |-> SumCase(rows, "income"), totalExpense |-> SumCase(rows, "expense"),
     count |-> Cardinality(rows),
     net |-> SumCase(rows, "income") - SumCase(rows, "expense")]

\* Variant of StatusRemaining that lets the remainder go below zero.
StatusRemaining_Unclamped(amount, spent) == amount - spent

\* BudgetService.GetStatus: "remaining := budget.Amount.Sub(spent)", zero
\* when negative.
StatusRemaining(amount, spent) ==
    IF amount - spent < 0 THEN 0 ELSE amount - spent

\* BudgetService.GetStatus: "IsOverBudget: spent.GreaterThan(budget.Amount)"
StatusIsOverBudget(amount, spent) == spent > amount

\* BudgetService.GetStatus, first statement: s.budgetRepo.GetByID.
BudgetService_GetStatus(p, I, F) ==
    /\ pc[p] = "idle"
    /\ \E id \in I.budgets :
         LET c == [NilCall EXCEPT !.op = "BudgetStatus", !.bid = id] IN
         \/ /\ faults < F
            /\ faults' = faults + 1
            /\ Fail(p, c, "failed to get budget")
         \/ /\ id \notin DOMAIN budgets
            /\ Fail(p, c, "failed to get budget")
            /\ UNCHANGED faults
         \/ /\ id \in DOMAIN budgets
            /\ Goto(p, [c EXCEPT !.budget = Some(budgets[id])], "status_summary")
            /\ UNCHANGED faults
    /\ UNCHANGED <<wallets, transactions, transfers, goals, contributions, recurrings, today,
                   budgets, dbtx, nextID>>

\* BudgetService.GetStatus, second statement: s.txRepo.GetSummary, then the
\* status computed from it.
BudgetService_GetStatus_Summary(p, F) ==
    /\ pc[p] = "status_summary"
    /\ LET c == call[p]
           budget == c.budget[1]
           spent == GetSummary(transactions, StatusFilter(budget)).totalExpense IN
       \/ /\ faults < F
          /\ faults' = faults + 1
          /\ Fail(p, c, "failed to get spending")
       \/ /\ Fail(p, [c EXCEPT !.result =
                        Some([budget |-> budget, spent |-> spent,
                              remaining |-> StatusRemaining(budget.amount, spent),
                              isOverBudget |-> StatusIsOverBudget(budget.amount, spent)])],
                  "nil")
          /\ UNCHANGED faults
    /\ UNCHANGED <<wallets, transactions, transfers, goals, contributions, recurrings, today,
                   budgets, dbtx, nextID>>

\* budgetRepository.GetBudgetStatus: the subquery "spent" of budget b.
SpentSubquery(ts, b) ==
    SumAmounts({t \in ts :
                  /\ t.categoryID = Some(b.categoryID)
                  /\ t.type = "expense"
                  /\ t.date >= b.startDate
                  /\ (b.endDate = Nil \/ t.date <= b.endDate[1])})

\* budgetRepository.GetBudgetStatus: the status scanned and completed for
\* one row of the result.
RowStatus(ts, b) ==
    LET spent == SpentSubquery(ts, b)
        remaining == b.amount - spent IN
    [budget |-> b, spent |-> spent,
     remaining |-> IF remaining < 0 THEN 0 ELSE remaining,
     isOverBudget |-> spent > b.amount]

\* BudgetService.GetAllStatus: the statuses of the active budgets.
BudgetService_GetAllStatus(p, F) ==
    /\ pc[p] = "idle"
    /\ LET c == [NilCall EXCEPT !.op = "BudgetAllStatus"] IN
       \/ /\ faults < F
          /\ faults' = faults + 1
          /\ Fail(p, c, "failed to get budget status")
       \/ /\ Fail(p, [c EXCEPT !.statuses =
                        {RowStatus(transactions, budgets[id]) :
                            id \in {i \in DOMAIN budgets : budgets[i].isActive}}],
                  "nil")
          /\ UNCHANGED faults
    /\ UNCHANGED <<wallets, transactions, transfers, goals, contributions, recurrings, today,
                   budgets, dbtx, nextID>>

\* One caller at a time creating budgets and transactions and asking for the
\* status of a budget while the days pass, against a store whose statements
\* do not fail.
NextBudget ==
    \/ \E p \in SeqProcs :
         \/ BudgetService_Create(p, BudgetInputs, 0)
         \/ BudgetService_GetStatus(p, BudgetInputs, 0)
         \/ BudgetService_GetStatus_Summary(p, 0)
         \/ BudgetService_GetAllStatus(p, 0)
         \/ TransactionService_Create(p, BudgetTransactionInputs)
         \/ WithTransaction_Begin(p, 0)
         \/ TransactionService_Create_Insert(p, 0)
         \/ TransactionService_Create_UpdateBalance(p, 0)
         \/ WithTransaction_End(p, 0)
         \/ Return(p)
    \/ Clock_Tick

SpecBudget == Init /\ [][NextBudget]_vars

\* The expense rows of a category dated within a budget's period.
ExpensesOfBudget(b) ==
    {t \in transactions :
        /\ t.type = "expense"
        /\ t.categoryID = Some(b.categoryID)
        /\ t.date >= b.startDate
        /\ b.endDate # Nil => t.date <= b.endDate[1]}

\* C22: the status BudgetService.GetStatus returns reports as spent the sum
\* of the amounts of the expense transactions of the budget's category dated
\* within its period; other categories and income do not contribute.
C22_SpentIsCategoryExpenses ==
    [][\A p \in Procs :
         (pc[p] = "status_summary" /\ pc'[p] = "done" /\ call'[p].err = "nil")
         => call'[p].result[1].spent = SumAmounts(ExpensesOfBudget(call'[p].result[1].budget))]_vars

\* The statuses a budget call that has returned hands to its caller.
ReturnedStatuses(p) ==
    IF pc[p] = "done" /\ call[p].err = "nil" /\ call[p].op = "BudgetStatus"
    THEN {call[p].result[1]}
    ELSE IF pc[p] = "done" /\ call[p].err = "nil" /\ call[p].op = "BudgetAllStatus"
    THEN call[p].statuses
    ELSE {}

\* C23: every budget status returned has remaining = max(0, amount - spent)
\* and overBudget = (spent > amount); so remaining is 0 whenever overBudget
\* holds, and spent equal to amount gives remaining 0 and overBudget false.
C23_RemainingAndOverBudget ==
    \A p \in Procs : \A st \in ReturnedStatuses(p) :
        LET amount == st.budget.amount IN
        /\ st.remaining = (IF amount - st.spent > 0 THEN amount - st.spent ELSE 0)
        /\ st.isOverBudget = (st.spent > amount)
        /\ st.isOverBudget => st.remaining = 0
        /\ st.spent = amount => (st.remaining = 0 /\ ~st.isOverBudget)

\* GetStatus has returned the status of a budget that is overspent.
C23_Witness ==
    \E p \in Procs :
        /\ pc[p] = "done" /\ call[p].op = "BudgetStatus" /\ call[p].err = "nil"
        /\ call[p].result[1].spent > call[p].result[1].budget.amount
        /\ call[p].result[1].remaining = 0
        /\ call[p].result[1].isOverBudget

\* C24: no step removes a wallet row, and a WalletService.Delete that
\* succeeds leaves the wallet in the store, inactive, with its balance as it
\* was, and leaves every other wallet as it was.
C24_DeleteIsSoft ==
    [][/\ DOMAIN wallets \subseteq DOMAIN wallets'
       /\ \A p \in Procs :
            (pc[p] = "idle" /\ pc'[p] = "done" /\ call'[p].op = "WalletDelete"
             /\ call'[p].err = "nil")
            => LET w == call'[p].w IN
               /\ w \in DOMAIN wallets'
               /\ ~wallets'[w].isActive
               /\ wallets'[w].balance = wallets[w].balance
               /\ \A v \in DOMAIN wallets \ {w} : wallets'[v] = wallets[v]]_vars

\* WalletService.Delete has succeeded on a wallet that holds money.
C24_Witness ==
    \E p \in Procs :
        /\ pc[p] = "done" /\ call[p].op = "WalletDelete" /\ call[p].err = "nil"
        /\ call[p].w \in DOMAIN wallets
        /\ ~wallets[call[p].w].isActive
        /\ wallets[call[p].w].balance > 0

\* ------------------------------------------------------ wallet lifecycle

\* Ids models.NewID hands to the wallets created after the first two.
NewWalletIDs == {"w3"}

\* A string is the sequence of its characters.  Bytes of one character in
\* UTF-8: the euro sign takes three.
ByteWidth(ch) == IF ch = "€" THEN 3 ELSE 1

RECURSIVE ByteLen(_)
\* len(s) of Go: the number of bytes of the string.
ByteLen(str) == IF str = <<>> THEN 0 ELSE ByteWidth(Head(str)) + ByteLen(Tail(str))

RECURSIVE TrimLeft(_)
TrimLeft(str) ==
    IF str # <<>> /\ Head(str) = " " THEN TrimLeft(Tail(str)) ELSE str

RECURSIVE TrimRight(_)
TrimRight(str) ==
    IF str # <<>> /\ str[Len(str)] = " " THEN TrimRight(SubSeq(str, 1, Len(str) - 1)) ELSE str

\* strings.TrimSpace
TrimSpace(str) == TrimRight(TrimLeft(str))

\* strings.ToUpper on the letters of the inputs.
UpperChar(ch) ==
    CASE ch = "i" -> "I" [] ch = "d" -> "D" [] ch = "r" -> "R" [] OTHER -> ch

ToUpper(str) == [i \in 1..Len(str) |-> UpperChar(str[i])]

\* models.WalletType.IsValid
WalletTypeIsValid(typ) == typ \in {"cash", "bank", "ewallet"}

\* models.Wallet.Validate: "Validate currency (3 letters)"
CurrencyIsValid(currency) == ByteLen(ToUpper(TrimSpace(currency))) = 3

\* models.Wallet.Validate
WalletValidateAll(name, typ, currency, balance) ==
    IF TrimSpace(name) = <<>> THEN "wallet name is required"
    ELSE IF ByteLen(TrimSpace(name)) > 100 THEN "wallet name must be less than 100 characters"
    ELSE IF ~WalletTypeIsValid(typ) THEN "invalid wallet type"
    ELSE IF ~CurrencyIsValid(currency) THEN "currency must be a 3-letter ISO code"
    ELSE WalletValidate(balance)

\* wallets: name VARCHAR(100), currency CHAR(3) count characters.
InsertWalletOK(name, currency) == Len(name) <= 100 /\ Len(currency) <= 3

\* Inputs of WalletService.Create, valid and invalid ones.
WalletInputs ==
    [names |-> {<<"B", "C", "A">>, <<>>, <<" ">>, [i \in 1..101 |-> "A"]},
     types |-> {"bank", "invalid"},
     currencies |-> {<<"I", "D", "R">>, <<"i", "d", "r">>, <<>>, <<"I", "D">>,
                     <<"I", "D", "R", "X">>, <<" ", "I", "D", "R">>, <<"€">>},
     balances |-> (-1)..InitialDeposit]

\* walletRepository.Create: the table after the INSERT.
RepoCreateWallet(ws, id, balance) ==
    [w \in DOMAIN ws \cup {id} |->
        IF w = id THEN [balance |-> balance, isActive |-> TRUE] ELSE ws[w]]

\* WalletService.Create
WalletService_Create(p, I, F) ==
    /\ pc[p] = "idle"
    /\ \E id \in NewWalletIDs \ DOMAIN wallets, name \in I.names, typ \in I.types,
          currency \in I.currencies, balance \in I.balances :
         LET c == [NilCall EXCEPT !.op = "WalletCreate", !.w = id, !.bal = balance,
                                  !.input = Some([name |-> name, type |-> typ,
                                                  currency |-> currency])]
             stored == ToUpper(TrimSpace(currency)) IN
         IF WalletValidateAll(name, typ, currency, balance) # "nil"
         THEN Fail(p, c, "validation failed") /\ UNCHANGED <<wallets, faults>>
         ELSE \/ /\ faults < F
                 /\ faults' = faults + 1
                 /\ Fail(p, c, "failed to create wallet")
                 /\ UNCHANGED wallets
              \/ /\ ~InsertWalletOK(TrimSpace(name), stored)
                 /\ Fail(p, c, "failed to create wallet")
                 /\ UNCHANGED <<wallets, faults>>
              \/ /\ InsertWalletOK(TrimSpace(name), stored)
                 /\ wallets' = RepoCreateWallet(wallets, id, balance)
                 /\ Fail(p, c, "nil")
                 /\ UNCHANGED faults
    /\ UNCHANGED <<transactions, transfers, goals, contributions, recurrings, today, budgets,
                   dbtx, nextID>>

RECURSIVE SumBalances(_, _)
\* SUM(balance) over the rows with the given ids.
SumBalances(ws, ids) ==
    IF ids = {} THEN 0
    ELSE LET w == CHOOSE x \in ids : TRUE IN ws[w].balance + SumBalances(ws, ids \ {w})

\* Variant of TotalBalanceRows without the is_active condition.
TotalBalanceRows_All(ws) == DOMAIN ws

\* walletRepository.GetTotalBalance: the rows of "WHERE is_active = true".
TotalBalanceRows(ws) == {w \in DOMAIN ws : ws[w].isActive}

\* WalletService.GetTotalBalance
WalletService_GetTotalBalance(p, F) ==
    /\ pc[p] = "idle"
    /\ LET c == [NilCall EXCEPT !.op = "TotalBalance"] IN
       \/ /\ faults < F
          /\ faults' = faults + 1
          /\ Fail(p, c, "failed to get total balance")
       \/ /\ Fail(p, [c EXCEPT !.result =
                        Some(SumBalances(wallets, TotalBalanceRows(wallets)))], "nil")
          /\ UNCHANGED faults
    /\ UNCHANGED <<wallets, transactions, transfers, goals, contributions, recurrings, today,
                   budgets, dbtx, nextID>>

\* Inputs of WalletService.Create that pass Validate.
ValidWalletInputs ==
    [names |-> {<<"B", "C", "A">>}, types |-> {"bank"}, currencies |-> {<<"I", "D", "R">>},
     balances |-> 0..InitialDeposit]

\* One caller at a time creating and deleting wallets, changing balances by
\* transactions and asking for the total balance, against a store whose
\* statements do not fail.
NextWalletLife ==
    \E p \in SeqProcs :
        \/ WalletService_Create(p, ValidWalletInputs, 0)
        \/ WalletService_Delete(p, [wallets |-> WalletIDs \cup NewWalletIDs])
        \/ WalletService_GetTotalBalance(p, 0)
        \/ TransactionService_Create(p, [ValidInputs EXCEPT !.wallets = WalletIDs \cup NewWalletIDs])
        \/ WithTransaction_Begin(p, 0)
        \/ TransactionService_Create_Insert(p, 0)
        \/ TransactionService_Create_UpdateBalance(p, 0)
        \/ WithTransaction_End(p, 0)
        \/ Return(p)

SpecWalletLife == Init /\ [][NextWalletLife]_vars

\* One caller creating wallets from valid and invalid inputs and deleting
\* them, against a store that may fail.
NextWalletCreate ==
    \E p \in SeqProcs :
        \/ WalletService_Create(p, WalletInputs, MaxFaults)
        \/ WalletService_Delete(p, [wallets |-> WalletIDs \cup NewWalletIDs])
        \/ Return(p)

SpecWalletCreate == Init /\ [][NextWalletCreate]_vars

\* C25: the total WalletService.GetTotalBalance returns is the sum of the
\* balances of the wallets that are active, 0 when there is none; wallets
\* that were soft-deleted do not contribute.
C25_TotalIsSumOfActive ==
    \A p \in Procs :
        (pc[p] = "done" /\ call[p].op = "TotalBalance" /\ call[p].err = "nil")
        => call[p].result[1] =
               SumBalances(wallets, {w \in DOMAIN wallets : wallets[w].isActive})

\* The total was returned while a soft-deleted wallet holds money and an
\* active wallet holds money too.
C25_Witness ==
    \E p \in Procs :
        /\ pc[p] = "done" /\ call[p].op = "TotalBalance" /\ call[p].err = "nil"
        /\ \E w \in DOMAIN wallets : ~wallets[w].isActive /\ wallets[w].balance > 0
        /\ call[p].result[1] > 0

\* The input of a wallet creation is one the creation must refuse: an empty
\* name, an invalid type, a currency that is not 3 characters (surrounding
\* blanks aside), or a negative initial balance.
WalletInputIsInvalid(in, balance) ==
    \/ TrimSpace(in.name) = <<>>
    \/ ~WalletTypeIsValid(in.type)
    \/ Len(TrimSpace(in.currency)) # 3
    \/ balance < 0

\* C26: a WalletService.Create that succeeds has stored an active wallet
\* whose balance is the initial deposit given, and a creation with an invalid
\* input returns a validation error and stores no wallet.
C26_CreateStoresOrRejects ==
    \A p \in Procs :
        (pc[p] = "done" /\ call[p].op = "WalletCreate")
        => LET c == call[p] IN
           /\ c.err = "nil" =>
                 /\ c.w \in DOMAIN wallets
                 /\ wallets[c.w] = [balance |-> c.bal, isActive |-> TRUE]
           /\ WalletInputIsInvalid(c.input[1], c.bal) =>
                 /\ c.err = "validation failed"
                 /\ c.w \notin DOMAIN wallets

\* Inputs of TransactionService.Create, valid and invalid ones: a wallet
\* that does not exist, amounts -1 and 0, a type that is neither income nor
\* expense.
TransactionInputs ==
    [wallets |-> WalletIDs \cup {"w3"}, types |-> {"income", "expense", "transfer"},
     amounts |-> (-1)..MaxAmount, categories |-> {Nil}]

\* Transactions created from any input and wallets deleted, one call at a
\* time by one caller, against a store that may fail.
NextTxInputs ==
    \E p \in SeqProcs :
        \/ TransactionService_Create(p, TransactionInputs)
        \/ WithTransaction_Begin(p, MaxFaults)
        \/ TransactionService_Create_Insert(p, MaxFaults)
        \/ TransactionService_Create_UpdateBalance(p, MaxFaults)
        \/ WithTransaction_End(p, MaxFaults)
        \/ WalletService_Delete(p, TransactionInputs)
        \/ Return(p)

SpecTxInputs == Init /\ [][NextTxInputs]_vars

\* C27: a TransactionService.Create whose wallet does not exist or is
\* inactive, whose amount is zero or negative, or whose type is neither
\* income nor expense returns an error at once: no atomic unit is opened and
\* no wallet and no transaction row changes.
C27_InvalidCreateTouchesNothing ==
    [][\A p \in Procs :
         (/\ pc[p] = "idle" /\ pc'[p] # "idle" /\ call'[p].op = "TxCreate"
          /\ LET c == call'[p] IN
             \/ c.w \notin DOMAIN wallets
             \/ ~wallets[c.w].isActive
             \/ c.amt <= 0
             \/ c.typ \notin {"income", "expense"})
         => /\ pc'[p] = "done"
            /\ call'[p].err # "nil"
            /\ ~call'[p].began
            /\ dbtx' = dbtx
            /\ wallets' = wallets
            /\ transactions' = transactions]_vars

\* A creation with amount zero on an existing active wallet was refused.
C27_Witness ==
    \E p \in Procs :
        /\ pc[p] = "done" /\ call[p].op = "TxCreate"
        /\ call[p].amt = 0 /\ call[p].typ = "income"
        /\ call[p].w \in DOMAIN wallets /\ wallets[call[p].w].isActive
        /\ call[p].err = "validation failed"
        /\ ~call[p].began
        /\ transactions = {}

\* ------------------------------------------------ order of the writes (C28)

\* The stored tables differ between the two states of a step.
StoreChanged == wallets' # wallets \/ transactions' # transactions \/ transfers' # transfers

\* The wallets other than those in ws are the same in both states of a step.
OnlyWalletsChanged(ws) == \A w \in DOMAIN wallets \ ws : wallets'[w] = wallets[w]

C29_FailedAdvanceIsReprocessed ==
    [][\A p \in SeqProcs :
         /\ (/\ pc[p] = "due_created" /\ pc'[p] = "due_next" /\ call[p].err = "nil"
             /\ call'[p].processed = call[p].processed)
            => LET r == Head(call[p].due) IN
               /\ \E t \in transactions' : t.id = call[p].id /\ t.date = r.nextDue
               /\ recurrings'[r.id].nextDue = r.nextDue
               /\ recurrings'[r.id].isActive
               /\ recurrings'[r.id].nextDue <= today'
         /\ (pc[p] = "idle" /\ pc'[p] = "due_next" /\ call'[p].op = "ProcessDue")
            => /\ \A id \in DOMAIN recurrings :
                    (recurrings[id].isActive /\ recurrings[id].nextDue <= today)
                    => \E i \in 1..Len(call'[p].batch) : call'[p].batch[i] = recurrings[id]
         /\ (pc[p] = "due_next" /\ pc'[p] # "due_next" /\ call[p].due # <<>>)
            => /\ call'[p].op = "TxCreate"
               /\ call'[p].date = Head(call[p].due).nextDue
               /\ call'[p].w = Head(call[p].due).walletID]_vars

\* The only recurring entry was generated twice with the same date, without
\* any failure of the store other than the rejected update: the second
\* transaction has just been created and the entry is stored as it was.
C29_Witness ==
    \E p \in SeqProcs :
        /\ pc[p] = "due_created" /\ call[p].err = "nil" /\ faults = 0
        /\ Cardinality(DOMAIN recurrings) = 1
        /\ LET r == Head(call[p].due) IN
           /\ recurrings[r.id] = r
           /\ \E t1, t2 \in transactions :
                /\ t1.id = call[p].id /\ t2.id # t1.id
                /\ t1.date = r.nextDue /\ t2.date = r.nextDue
                /\ t1.walletID = t2.walletID /\ t1.amount = t2.amount /\ t1.type = t2.type

\* ------------------------------------- completion of a goal at target (C30)

\* C30: in every state in which no goal operation is in progress, no goal is
\* active while its current amount has reached its target amount; stated for
\* the runs in which no statement of the store has failed.
C30_NoActiveGoalAtTarget ==
    ((\A p \in Procs : pc[p] \in {"idle", "done"}) /\ faults = 0)
    => \A g \in DOMAIN goals :
          ~(goals[g].status = "active" /\ goals[g].current >= goals[g].target)

\* ------------------------------------------- date range of a budget (C31)

\* C31: a BudgetService.Create of a budget whose endDate is present and equal
\* to or before its startDate is rejected by Budget.Validate (the call
\* returns "validation failed"), and no budget is stored.
C31_ValidateRejectsEndNotAfterStart ==
    \A p \in Procs :
        (/\ pc[p] = "done" /\ call[p].op = "BudgetCreate"
         /\ call[p].budget.endDate # Nil)
        => (IF call[p].budget.endDate[1] <= call[p].budget.startDate
            THEN call[p].err = "validation failed" /\ call[p].bid \notin DOMAIN budgets
            ELSE TRUE)

\* ------------------------------- an entry with an endDate runs out (C32)

\* C32: an entry with an endDate becomes inactive after finitely many runs of
\* ProcessDue. Every run in which the transaction of the entry was generated
\* and the store did not fail must bring the stored entry nearer to that: it
\* stores a later nextDue, or it stores the entry as inactive. (nextDue of an
\* active entry is bounded by the endDate, so finitely many such runs are
\* left.) An inactive entry is not taken up by any later run.
C32_EntryWithEndDateRunsOut ==
    [][\A p \in SeqProcs :
         /\ (/\ pc[p] = "due_created" /\ pc'[p] = "due_next" /\ call[p].err = "nil"
             /\ faults' = faults /\ Head(call[p].due).endDate # Nil)
            => LET id == Head(call[p].due).id IN
               \/ recurrings'[id].nextDue > recurrings[id].nextDue
               \/ ~recurrings'[id].isActive
         /\ (pc[p] = "idle" /\ pc'[p] = "due_next" /\ call'[p].op = "ProcessDue")
            => \A i \in 1..Len(call'[p].batch) : recurrings[call'[p].batch[i].id].isActive]_vars

\* ------------------------------------ one transaction per due date (C33)

\* C33: while no statement of the store has failed for a reason other than a
\* constraint of the schema, no two transactions generated from the same
\* recurring entry carry the same date. Stated for the runs with a single
\* recurring entry, in which every transaction was generated from it.
C33_OneTransactionPerDueDate ==
    (faults = 0 /\ Cardinality(DOMAIN recurrings) = 1)
    => \A t1, t2 \in transactions : t1.date = t2.date => t1.id = t2.id

\* ----------------------------------------- one step per run (C34)

RecurringUpdateInputs ==
    [ids |-> RecurringIDs,
     nextDues |-> {Nil} \cup {Some(d) : d \in 1..MaxDay},
     endDates |-> {Nil} \cup {Some(d) : d \in 1..MaxDay},
     actives |-> {Nil} \cup {Some(b) : b \in BOOLEAN}]

\* RecurringService.Update up to the call of recurringRepo.Update:
\* recurringRepo.GetByID, the fields of the input that are set, Validate.
RecurringService_Update(p, I, F) ==
    /\ pc[p] = "idle"
    /\ \E id \in I.ids, due \in I.nextDues, end \in I.endDates, active \in I.actives :
         LET c == [NilCall EXCEPT !.op = "RecurringUpdate"] IN
         \/ /\ faults < F
            /\ faults' = faults + 1
            /\ Fail(p, [c EXCEPT !.failedAt = "get"], "failed to get recurring")
         \/ /\ id \notin DOMAIN recurrings
            /\ Fail(p, c, "failed to get recurring")
            /\ UNCHANGED faults
         \/ /\ id \in DOMAIN recurrings
            /\ LET r == [recurrings[id] EXCEPT
                            !.nextDue = IF due = Nil THEN @ ELSE due[1],
                            !.endDate = IF end = Nil THEN @ ELSE end,
                            !.isActive = IF active = Nil THEN @ ELSE active[1]] IN
               IF RecurringValidate(r) # "nil"
               THEN Fail(p, c, "validation failed")
               ELSE Goto(p, [c EXCEPT !.input = r], "recurring_update")
            /\ UNCHANGED faults
    /\ UNCHANGED <<wallets, transactions, transfers, goals, contributions, recurrings, dbtx,
                   nextID, today, budgets>>

\* RecurringService.Update: s.recurringRepo.Update(ctx, recurring)
RecurringService_Update_Update(p, F) ==
    /\ pc[p] = "recurring_update"
    /\ LET c == call[p] IN
       \/ /\ faults < F
          /\ faults' = faults + 1
          /\ Fail(p, [c EXCEPT !.failedAt = "update"], "failed to update recurring")
          /\ UNCHANGED recurrings
       \/ /\ RepoUpdateRecurringErr(recurrings, c.input) # "nil"
          /\ Fail(p, c, "failed to update recurring")
          /\ UNCHANGED <<recurrings, faults>>
       \/ /\ RepoUpdateRecurringErr(recurrings, c.input) = "nil"
          /\ recurrings' = RepoUpdateRecurring(recurrings, c.input)
          /\ Fail(p, c, "nil")
          /\ UNCHANGED faults
    /\ UNCHANGED <<wallets, transactions, transfers, goals, contributions, dbtx, nextID,
                   today, budgets>>

\* Inputs of RecurringService.Create for entries with an endDate; an end
\* date before the first due date is among them.
RecurringEndInputs ==
    [wallets |-> {"w1"}, types |-> {"income"}, amounts |-> {1},
     frequencies |-> {"daily", "weekly"}, nextDues |-> 1..MaxDay,
     endDates |-> {Some(d) : d \in 1..MaxDay}, categories |-> {Nil}]

\* RecurringService.Create of a first entry, Update and ProcessDue called one
\* at a time while the days pass, against a store whose statements fail only
\* by a constraint.
NextRecurringUpdate ==
    \/ \E p \in SeqProcs :
         \/ DOMAIN recurrings = {} /\ RecurringService_Create(p, RecurringEndInputs, 0)
         \/ RecurringService_Update(p, RecurringUpdateInputs, 0)
         \/ RecurringService_Update_Update(p, 0)
         \/ RecurringService_ProcessDue(p, 0)
         \/ RecurringService_ProcessDue_Generate(p)
         \/ WithTransaction_Begin(p, 0)
         \/ TransactionService_Create_Insert(p, 0)
         \/ TransactionService_Create_UpdateBalance(p, 0)
         \/ WithTransaction_End(p, 0)
         \/ RecurringService_ProcessDue_Advance(p, 0)
         \/ RecurringService_ProcessDue_Return(p)
         \/ Return(p)
    \/ Clock_Tick

SpecRecurringUpdate == Init /\ [][NextRecurringUpdate]_vars

\* C35: in every reachable state a stored recurring entry with an endDate,
\* active or not, has nextDue <= endDate, and every transaction that
\* ProcessDue generates from an entry with an endDate is dated on or before
\* that endDate.
C35_NextDueWithinEndDate ==
    /\ \A id \in DOMAIN recurrings :
          IF recurrings[id].endDate = Nil THEN TRUE
          ELSE recurrings[id].nextDue <= recurrings[id].endDate[1]
    /\ \A p \in SeqProcs :
          (call[p].caller = "ProcessDue" /\ pc[p] # "due_next")
          => LET r == Head(call[p].due) IN
             IF r.endDate = Nil THEN TRUE
             ELSE /\ call[p].date <= r.endDate[1]
                  /\ \A t \in transactions : t.id = call[p].id => t.date <= r.endDate[1]

\* ProcessDue has generated the transaction of a daily entry whose nextDue
\* is its endDate; the update of the entry past its endDate was refused and
\* the entry is stored as it was.
C35_Witness ==
    \E p \in SeqProcs :
        /\ pc[p] = "done" /\ call[p].op = "ProcessDue" /\ Len(call[p].batch) = 1
        /\ LET r == call[p].batch[1] IN
           /\ r.endDate # Nil /\ r.nextDue = 2 /\ r.endDate = Some(2) /\ r.frequency = "daily"
           /\ recurrings[r.id] = r
           /\ \E t \in transactions : t.date = 2

\* ------------------------------- balance of a soft-deleted wallet (C36)

\* TransactionService.Create and Delete and WalletService.Delete called one
\* at a time, against a store whose statements do not fail.
NextSoftDeleted ==
    \/ \E p \in SeqProcs : TransactionService_Create(p, ValidInputs)
    \/ \E p \in SeqProcs : TransactionService_Create_Insert(p, 0)
    \/ \E p \in SeqProcs : TransactionService_Create_UpdateBalance(p, 0)
    \/ \E p \in SeqProcs : TransactionService_Delete(p, ValidInputs)
    \/ \E p \in SeqProcs : TransactionService_Delete_GetWallet(p)
    \/ \E p \in SeqProcs : TransactionService_Delete_Delete(p, 0)
    \/ \E p \in SeqProcs : TransactionService_Delete_UpdateBalance(p, 0)
    \/ \E p \in SeqProcs : WithTransaction_Begin(p, 0)
    \/ \E p \in SeqProcs : WithTransaction_End(p, 0)
    \/ \E p \in SeqProcs : WalletService_Delete(p, ValidInputs)
    \/ \E p \in SeqProcs : Return(p)

SpecSoftDeleted == Init /\ [][NextSoftDeleted]_vars

\* C36: no step of a core operation changes the stored balance of a wallet
\* that is soft-deleted (isActive = FALSE).
C36_InactiveBalanceIsConstant ==
    [][\A w \in DOMAIN wallets :
         ~wallets[w].isActive => wallets'[w].balance = wallets[w].balance]_vars

\* -------------------------------------- deleting a transaction twice (C37)

\* TransactionService.Create called by one caller while nothing else runs,
\* and, while no Create is in progress, TransactionService.Delete of the
\* transaction id 1 called by two callers, interleaved statement by
\* statement, against a store whose statements do not fail.
NextDeleteTwice ==
    \/ \E p \in SeqProcs : AllIdle /\ TransactionService_Create(p, ValidInputs)
    \/ \E p \in SeqProcs : TransactionService_Create_Insert(p, 0)
    \/ \E p \in SeqProcs : TransactionService_Create_UpdateBalance(p, 0)
    \/ \E p \in Procs : /\ \A q \in Procs : call[q].op # "TxCreate"
                        /\ TransactionService_Delete(p, [ids |-> {1}])
    \/ \E p \in Procs : TransactionService_Delete_GetWallet(p)
    \/ \E p \in Procs : TransactionService_Delete_Delete(p, 0)
    \/ \E p \in Procs : TransactionService_Delete_UpdateBalance(p, 0)
    \/ \E p \in Procs : WithTransaction_Begin(p, 0)
    \/ \E p \in Procs : WithTransaction_End(p, 0)
    \/ \E p \in Procs : Return(p)

SpecDeleteTwice == Init /\ [][NextDeleteTwice]_vars

\* C37: when two TransactionService.Delete calls for the same transaction id
\* have returned, one after the other or overlapping, at most one of them has
\* succeeded and a call that has not succeeded has returned the not-found
\* error of the row read or of the row delete; when both had read the row
\* (so neither came after a delete of it), exactly one has succeeded; and once the row is deleted every wallet
\* balance is its initial balance plus the amounts of the rows that remain:
\* the adjustment of the deleted row was taken back once.
C37_ReversedAtMostOnce ==
    \A p, q \in Procs :
        (/\ p # q
         /\ pc[p] = "done" /\ pc[q] = "done"
         /\ call[p].op = "TxDelete" /\ call[q].op = "TxDelete"
         /\ call[p].id = call[q].id)
        => /\ ~(call[p].err = "nil" /\ call[q].err = "nil")
           /\ call[p].err \in {"nil", "transaction not found", "failed to delete transaction"}
           /\ call[q].err \in {"nil", "transaction not found", "failed to delete transaction"}
           /\ (call[p].w # "" /\ call[q].w # "")
                 => (call[p].err = "nil" \/ call[q].err = "nil")
           /\ (call[p].w # "" \/ call[q].w # "")
                 => ~\E t \in transactions : t.id = call[p].id
           /\ \A w \in WalletIDs :
                 wallets[w].balance =
                     InitialBalance(w) + SumAmounts(RowsOf(w, "income"))
                     - SumAmounts(RowsOf(w, "expense"))

\* Two overlapping deletes of one transaction have returned: both had read
\* the row and the wallet, one deleted the row, the other found no row to
\* delete.
C37_Witness ==
    \E p, q \in Procs :
        /\ p # q /\ pc[p] = "done" /\ pc[q] = "done"
        /\ call[p].op = "TxDelete" /\ call[q].op = "TxDelete" /\ call[p].id = call[q].id
        /\ call[p].err = "nil" /\ call[q].err = "failed to delete transaction"
        /\ call[q].began
        /\ wallets[call[p].w].balance = call[p].newBal
        /\ transactions # {}

\* ------------------------------ concurrent transfers and the total (C38)

\* Concurrent TransferService.Create calls, interleaved statement by
\* statement, against a store whose statements do not fail.
NextTransferConcurrent ==
    \/ \E p \in Procs : TransferService_Create(p, ValidInputs)
    \/ \E p \in Procs : TransferService_Create_GetTo(p)
    \/ \E p \in Procs : TransferService_Create_Insert(p, 0)
    \/ \E p \in Procs : TransferService_Create_UpdateSource(p, 0)
    \/ \E p \in Procs : TransferService_Create_UpdateDestination(p, 0)
    \/ \E p \in Procs : WithTransaction_Begin(p, 0)
    \/ \E p \in Procs : WithTransaction_End(p, 0)
    \/ \E p \in Procs : Return(p)

SpecTransferConcurrent == Init /\ [][NextTransferConcurrent]_vars

\* C38: when every TransferService.Create call has returned, the calls that
\* got as far as the atomic unit all having succeeded, the total of the
\* wallet balances is the initial total minus the fees of the transfers.
C38_TotalMinusFees ==
    AllIdle
    => SumBalances(wallets, WalletIDs) =
           SumBalances([w \in WalletIDs |-> [balance |-> InitialBalance(w)]], WalletIDs)
           - SumFees(transfers)

\* -------------------------------- GetStatus against GetAllStatus (C39)

\* C39: the status BudgetService.GetStatus returns for an active budget has
\* the spent, remaining and overBudget values of the entry that
\* BudgetService.GetAllStatus computes for that budget from the same store.
C39_GetStatusMatchesGetAllStatus ==
    \A p \in Procs :
        (/\ pc[p] = "done" /\ call[p].op = "BudgetStatus" /\ call[p].err = "nil"
         /\ call[p].bid \in DOMAIN budgets /\ budgets[call[p].bid].isActive)
        => LET st == call[p].result[1]
               row == RowStatus(transactions, budgets[call[p].bid]) IN
           /\ st.spent = row.spent
           /\ st.remaining = row.remaining
           /\ st.isOverBudget = row.isOverBudget

====
